---- MODULE Spec2Model ----
(***************************************************************************)
(* Query resolution pipeline of the product agent: the catalog cache, the  *)
(* synonym resolver, the product matcher, the color availability checker   *)
(* and the sourcing recommender (src/src/services/matcher.ts,              *)
(* src/src/services/cache.ts, src/src/utils/helpers.ts).                   *)
(*                                                                         *)
(* Strings are TLA+ strings; TLC evaluates Len, SubSeq and \o on them, so   *)
(* the string functions of the code are computed character by character.   *)
(* A nullable value (string | null, number | null, an optional field) is   *)
(* the empty tuple Null or the one-element tuple Some(v).                  *)
(***************************************************************************)
EXTENDS Integers, Sequences, FiniteSets, TLC

VARIABLES
  products,       \* CacheService.products
  synonyms,       \* CacheService.synonyms
  lastRefresh,    \* CacheService.lastRefresh
  isInitialized,  \* CacheService.isInitialized
  refreshes,      \* the calls of CacheService.refresh, in the order they started
  log,            \* what the logger has written at level error
  clock,          \* the time new Date() reads
  call,           \* the invocation being served and where it stands
  ret             \* what that invocation returned or responded

vars ==
  <<products, synonyms, lastRefresh, isInitialized, refreshes, log, clock,
    call, ret>>

\* The fields of the cache.
cacheFields == <<products, synonyms, lastRefresh, isInitialized>>

\* The refreshes in flight, the log and the time.
surroundings == <<refreshes, log, clock>>

\* ------------------------------------------------------------------ bounds

MaxMoq == 3

MaxQuantity == 4

MaxSynonyms == 2

MaxColors == 2

MaxProducts == 2

\* ------------------------------------------------------ string inputs

\* Column A of the Synonyms sheet: a blank cell, short slang contained in
\* canonical names, a plural that contains a canonical name, and a phrase with
\* irregular spacing.
CustomerSays == {"", "card", "holder", "Card Holders", "badge  case "}

\* Column B of the Synonyms sheet.
WeCallIt == {"", "Card Holder", "Business Card", "Lanyard"}

\* Terms handed to the resolver: raw queries, extractor output and canonical
\* names.
ResolveTerms ==
  {"card holders", "CARD  Holders ", "white badge case", "flying carpet"}
    \cup WeCallIt

\* Column E of the Products sheet, after parseCommaSeparated: trimmed,
\* non-empty color names.
WebsiteColorNames == {"Black", "Dark Red"}

\* Column I of the Products sheet, after parseCommaSeparated.
LocalColorNames == {"Red", "White"}

\* Column N of the Products sheet: a free-text statement of the overseas
\* colors, kept as typed.
ChinaColorCells == {"", "Any Pantone", "Red, Blue", "Company brand colours"}

\* Colors the extractor reports: a non-empty string (an empty one has become
\* null before it reaches the matcher).
RequestedColorNames == {"white", "red", "BLACK", "dark red", "blue"}

\* Column A of the Products sheet.
ProductNames == {"Card Holder", "Lanyard"}

\* Column B of the Products sheet; the cell may be blank.
Categories == {"Holders", ""}

\* Column D of the Products sheet, kept as typed: blank, two alternate names,
\* and one alternate name with irregular spacing and a trailing comma.
OtherNamesCells == {"", "Badge Holder, ID case", "neck  strap,"}

\* Search terms handed to the matcher: contained in a name, containing a
\* name, equal to a category, containing an alternate name, a synonym, a term
\* that matches nothing, and the empty term.
FindTerms ==
  {"holder", "white card holder", "HOLDERS", "id case with clip",
   "badge case", "flying carpet", ""}

\* Customer messages sent to the availability routes: the two end-to-end
\* scenarios, a product nobody sells, the examples of the extraction prompts,
\* and messages whose product phrase is empty once numbers and keywords are
\* taken out.
Queries ==
  {"Do you have white badge case? Need 200 pieces urgently",
   "card holder",
   "flying carpet",
   "Need 200 pcs of card holders urgently",
   "1,500 pcs t-shirts, 500 pcs hoodies",
   "100 red lanyards and 50 Blue pens",
   "500 pcs",
   "asap"}

\* Product types the external extractor reports.
ExtractedTypes ==
  {"", "badge case", "card holder", "card holders", "Card Holder", "lanyards"}

\* ------------------------------------------------------- nullable values

Null == <<>>

Some(v) == <<v>>

\* The one element of a one-element set. An intermediate result that is used
\* more than once is named by letting a variable range over the set that
\* holds just that result.
The(S) == CHOOSE x \in S : TRUE

\* The lowest of a non-empty set of positions.
Lowest(S) == CHOOSE i \in S : \A j \in S : i <= j

\* JavaScript truthiness of a number | null: null and 0 are falsy.
TruthyNum(n) == n # Null /\ n[1] # 0

\* JavaScript truthiness of a string: the empty string is falsy.
TruthyStr(s) == s # ""

\* `s || undefined` for a string s.
StrOrUndefined(s) == IF TruthyStr(s) THEN Some(s) ELSE Null

\* `n || undefined` for a number | null n.
NumOrUndefined(n) == IF TruthyNum(n) THEN n ELSE Null

\* ------------------------------------------------------------- strings

\* String.prototype.toLowerCase on the letters A-Z, one character at a time.
LowerMap ==
  [c \in {"A","B","C","D","E","F","G","H","I","J","K","L","M",
          "N","O","P","Q","R","S","T","U","V","W","X","Y","Z"} |->
     CASE c = "A" -> "a" [] c = "B" -> "b" [] c = "C" -> "c" [] c = "D" -> "d"
       [] c = "E" -> "e" [] c = "F" -> "f" [] c = "G" -> "g" [] c = "H" -> "h"
       [] c = "I" -> "i" [] c = "J" -> "j" [] c = "K" -> "k" [] c = "L" -> "l"
       [] c = "M" -> "m" [] c = "N" -> "n" [] c = "O" -> "o" [] c = "P" -> "p"
       [] c = "Q" -> "q" [] c = "R" -> "r" [] c = "S" -> "s" [] c = "T" -> "t"
       [] c = "U" -> "u" [] c = "V" -> "v" [] c = "W" -> "w" [] c = "X" -> "x"
       [] c = "Y" -> "y" [] c = "Z" -> "z"]

\* The characters of a string, in order. The string functions below work on
\* this form.
Chars(s) == [i \in 1..Len(s) |-> SubSeq(s, i, i)]

LowerChar(c) == IF c \in DOMAIN LowerMap THEN LowerMap[c] ELSE c

\* String.prototype.toLowerCase
toLowerCase(cs) == [i \in 1..Len(cs) |-> LowerChar(cs[i])]

\* The class \s of the regular expressions, on the characters used here.
IsSpace(c) == c \in {" ", "\t", "\n"}

\* String.prototype.trim: from the first to the last non-whitespace
\* character.
trim(cs) ==
  LET solid == {i \in 1..Len(cs) : ~IsSpace(cs[i])}
  IN  IF solid = {} THEN <<>>
      ELSE SubSeq(cs, CHOOSE i \in solid : \A j \in solid : i <= j,
                      CHOOSE i \in solid : \A j \in solid : i >= j)

\* s.replace(/\s+/g, ' '): every maximal run of whitespace becomes one space.
\* A whitespace character is kept (as a space) only when it starts a run.
collapseSpaces(cs) ==
  LET StartsRun(i) == i = 1 \/ ~IsSpace(cs[i - 1])
      marked == [i \in 1..Len(cs) |->
                   IF ~IsSpace(cs[i]) THEN <<cs[i]>>
                   ELSE IF StartsRun(i) THEN <<" ">> ELSE <<>>]
      Kept(m) == m # <<>>
      kept == SelectSeq(marked, Kept)
  IN  [k \in 1..Len(kept) |-> kept[k][1]]

\* String.prototype.includes: needle occurs in haystack at some offset.
includes(haystack, needle) ==
  \E i \in 0..(Len(haystack) - Len(needle)) :
    SubSeq(haystack, i + 1, i + Len(needle)) = needle

\* The first position from i on at which the sequence of test results holds
\* TRUE; 0 when there is none.
RECURSIVE FirstTrueFrom(_, _)
FirstTrueFrom(passes, i) ==
  IF i > Len(passes) THEN 0
  ELSE IF passes[i] THEN i
  ELSE FirstTrueFrom(passes, i + 1)

\* Array.prototype.find, given the test's result on each element: the index of
\* the element found (0: undefined).
Find(passes) == FirstTrueFrom(passes, 1)

\* The positions 1..n in order.
Positions(n) == [i \in 1..n |-> i]

\* ------------------------------------------------- regular expressions

\* The class \d.
Digits == {"0", "1", "2", "3", "4", "5", "6", "7", "8", "9"}

DigitValue ==
  [c \in Digits |->
     CASE c = "0" -> 0 [] c = "1" -> 1 [] c = "2" -> 2 [] c = "3" -> 3
       [] c = "4" -> 4 [] c = "5" -> 5 [] c = "6" -> 6 [] c = "7" -> 7
       [] c = "8" -> 8 [] c = "9" -> 9]

\* The class [a-zA-Z].
Letters ==
  DOMAIN LowerMap \cup {LowerMap[c] : c \in DOMAIN LowerMap}

\* The class \s, as a set.
Spaces == {" ", "\t", "\n"}

\* The class \w, whose edges are the word boundaries \b.
WordChars == Letters \cup Digits \cup {"_"}

\* The characters of cs put back into one string.
RECURSIVE Join(_)
Join(cs) == IF cs = <<>> THEN "" ELSE cs[1] \o Join(Tail(cs))

\* Where the run of characters of the class that starts at position i ends:
\* the first position from i on whose character is outside the class.
RunEnd(cs, i, class) ==
  LET stops == {j \in i..Len(cs) : cs[j] \notin class}
  IN  IF stops = {} THEN Len(cs) + 1
      ELSE CHOOSE j \in stops : \A k \in stops : j <= k

\* The literal (lower case) occurs in cs at position i, letter case ignored.
MatchAt(cs, i, literal) ==
  /\ i >= 1
  /\ i + Len(literal) - 1 <= Len(cs)
  /\ toLowerCase(SubSeq(cs, i, i + Len(literal) - 1)) = literal

\* The assertion \b holds between positions i - 1 and i.
WordBoundary(cs, i) ==
  LET before == i > 1 /\ i - 1 <= Len(cs) /\ cs[i - 1] \in WordChars
      after == i >= 1 /\ i <= Len(cs) /\ cs[i] \in WordChars
  IN  before # after

\* An alternation of literals tried at position i in the order written: the
\* index of the first alternative that matches (0: none). With bounded, the
\* alternation stands between two \b.
FirstAlternative(cs, i, alternatives, bounded) ==
  Find([k \in 1..Len(alternatives) |->
          /\ MatchAt(cs, i, alternatives[k])
          /\ bounded => /\ WordBoundary(cs, i)
                        /\ WordBoundary(cs, i + Len(alternatives[k]))])

\* text.replace(new RegExp(alternatives.join('|'), 'gi'), ''), from position
\* i on: a match is dropped and the scan goes on behind it.
removeWords(cs, i, alternatives, bounded) ==
  LET scan[j \in 1..(Len(cs) + 1)] ==
        IF j > Len(cs) THEN <<>>
        ELSE LET k == FirstAlternative(cs, j, alternatives, bounded)
             IN  IF k # 0 THEN scan[j + Len(alternatives[k])]
                 ELSE <<cs[j]>> \o scan[j + 1]
  IN  scan[i]

\* parseInt(text, 10) on a run of digits.
RECURSIVE parseInt(_)
parseInt(ds) ==
  IF ds = <<>> THEN 0
  ELSE 10 * parseInt(SubSeq(ds, 1, Len(ds) - 1)) + DigitValue[ds[Len(ds)]]

\* text.replace(/,/g, '')
removeCommas(cs) ==
  LET NotComma(c) == c # ","
  IN  SelectSeq(cs, NotComma)

\* ,\d{3} occurs at position i.
GroupAt(cs, i) ==
  /\ i + 3 <= Len(cs)
  /\ cs[i] = ","
  /\ \A j \in (i + 1)..(i + 3) : cs[j] \in Digits

\* How many times (?:,\d{3}) matches in a row from position i.
RECURSIVE GroupCount(_, _)
GroupCount(cs, i) == IF GroupAt(cs, i) THEN 1 + GroupCount(cs, i + 4) ELSE 0

\* The ends the group (\d{1,3}(?:,\d{3}){minGroups,}|\d+) can have when it
\* starts at position i, in the order the matcher tries them: the grouped
\* form first, with as many leading digits and then as many groups as
\* possible, then the plain run of digits, longest first.
NumberEnds(cs, i, minGroups) ==
  LET Grouped(d) ==
        The({ IF most < minGroups THEN <<>>
              ELSE [n \in 1..(most - minGroups + 1) |->
                      i + d + 4 * (most - n + 1)] :
                most \in {GroupCount(cs, i + d)} })
      Ends(run) ==
        (IF run >= 3 THEN Grouped(3) ELSE <<>>)
          \o (IF run >= 2 THEN Grouped(2) ELSE <<>>)
          \o (IF run >= 1 THEN Grouped(1) ELSE <<>>)
          \o [n \in 1..run |-> i + run - n + 1]
  IN  The({Ends(run) : run \in {RunEnd(cs, i, Digits) - i}})

\* ------------------------------------------------ numeric scan of the query

\* The alternation pcs|pieces|units.
UnitNames == <<Chars("pcs"), Chars("pieces"), Chars("units")>>

\* The larger of two numbers.
Larger(a, b) == IF a >= b THEN a ELSE b

\* Math.max(...numbers) for a non-empty array.
RECURSIVE MathMax(_)
MathMax(numbers) ==
  IF Len(numbers) = 1 THEN numbers[1]
  ELSE Larger(numbers[1], MathMax(Tail(numbers)))

\* `if (num > 0) quantities.push(num)`: what the loop body pushes.
pushPositive(num) == The({IF n > 0 THEN <<n>> ELSE <<>> : n \in {num}})

\* The unit word pcs|pieces|units behind the whitespace that follows position
\* e (0: none).
UnitAfter(cs, e) ==
  FirstAlternative(cs, RunEnd(cs, e, Spaces), UnitNames, FALSE)

\* /(\d{1,3}(?:,\d{3})+|\d+)\s*(?:pcs|pieces|units)/ tried at position i:
\* <<end of the number, end of the match>>, or <<>> when it does not match.
QuantityWithUnitAt(cs, i) ==
  LET Matched(ends) ==
        The({ IF n = 0 THEN <<>>
              ELSE The({ <<ends[n], RunEnd(cs, ends[n], Spaces) + Len(UnitNames[u])>> :
                           u \in {UnitAfter(cs, ends[n])} }) :
                n \in {Find([k \in 1..Len(ends) |-> UnitAfter(cs, ends[k]) # 0])} })
  IN  The({Matched(ends) : ends \in {NumberEnds(cs, i, 1)}})

\* The numbers pushed by the loop over text.matchAll of pattern 1, scanning
\* from position i.
RECURSIVE quantitiesWithUnit(_, _)
quantitiesWithUnit(cs, i) ==
  The({ IF hits = {} THEN <<>>
        ELSE The({ pushPositive(parseInt(removeCommas(SubSeq(cs, m.at, m.number - 1))))
                     \o quantitiesWithUnit(cs, m.end) :
                     m \in { [at |-> j, number |-> QuantityWithUnitAt(cs, j)[1],
                              end |-> QuantityWithUnitAt(cs, j)[2]] :
                              j \in {Lowest(hits)} } }) :
          hits \in {{j \in i..Len(cs) : QuantityWithUnitAt(cs, j) # <<>>}} })

\* /(\d+)k\s*(?:pcs|pieces|units)?/ tried at position i.
ThousandsAt(cs, i) ==
  LET Matched(e, s) ==
        IF e > i /\ e <= Len(cs) /\ cs[e] = "k"
          THEN The({ <<e, IF u = 0 THEN s ELSE s + Len(UnitNames[u])>> :
                       u \in {FirstAlternative(cs, s, UnitNames, FALSE)} })
        ELSE <<>>
  IN  The({ The({Matched(e, s) : s \in {RunEnd(cs, e + 1, Spaces)}}) :
              e \in {RunEnd(cs, i, Digits)} })

\* The numbers pushed by the loop over pattern 2 ("5k pcs").
RECURSIVE quantitiesInThousands(_, _)
quantitiesInThousands(cs, i) ==
  The({ IF hits = {} THEN <<>>
        ELSE The({ pushPositive(parseInt(SubSeq(cs, m.at, m.number - 1)) * 1000)
                     \o quantitiesInThousands(cs, m.end) :
                     m \in { [at |-> j, number |-> ThousandsAt(cs, j)[1],
                              end |-> ThousandsAt(cs, j)[2]] :
                              j \in {Lowest(hits)} } }) :
          hits \in {{j \in i..Len(cs) : ThousandsAt(cs, j) # <<>>}} })

\* The alternation quantity|qty.
QuantityLabels == <<Chars("quantity"), Chars("qty")>>

\* /(?:quantity|qty)[:\s]+(\d{1,3}(?:,\d{3})+|\d+)/ tried at position i:
\* <<start of the number, end of the match>>.
LabelledQuantityAt(cs, i) ==
  LET Matched(a) ==
        The({ The({ IF b > a /\ ends # <<>> THEN <<b, ends[1]>> ELSE <<>> :
                      ends \in {NumberEnds(cs, b, 1)} }) :
                b \in {RunEnd(cs, a, Spaces \cup {":"})} })
  IN  The({ IF w = 0 THEN <<>> ELSE Matched(i + Len(QuantityLabels[w])) :
              w \in {FirstAlternative(cs, i, QuantityLabels, FALSE)} })

\* The numbers pushed by the loop over pattern 3 ("qty: 5000").
RECURSIVE quantitiesLabelled(_, _)
quantitiesLabelled(cs, i) ==
  The({ IF hits = {} THEN <<>>
        ELSE The({ pushPositive(parseInt(removeCommas(SubSeq(cs, m[1], m[2] - 1))))
                     \o quantitiesLabelled(cs, m[2]) :
                     m \in {LabelledQuantityAt(cs, Lowest(hits))} }) :
          hits \in {{j \in i..Len(cs) : LabelledQuantityAt(cs, j) # <<>>}} })

\* helpers parseQuantityFromQuery, computed on the text of the query.
parseQuantityText(query) ==
  IF ~TruthyStr(query) THEN Null
  ELSE The({ IF Len(quantities) > 0 THEN Some(MathMax(quantities)) ELSE Null :
               quantities \in
                 { quantitiesWithUnit(text, 1) \o quantitiesInThousands(text, 1)
                     \o quantitiesLabelled(text, 1) :
                   text \in {toLowerCase(Chars(query))} } })

\* ------------------------------------------------- deterministic extractor

urgentKeywords ==
  <<Chars("urgent"), Chars("urgently"), Chars("asap"), Chars("rush"),
    Chars("quickly"), Chars("fast")>>

commonColors ==
  <<Chars("white"), Chars("black"), Chars("red"), Chars("blue"),
    Chars("green"), Chars("yellow"), Chars("orange"), Chars("purple"),
    Chars("pink"), Chars("brown"), Chars("grey"), Chars("gray"),
    Chars("silver"), Chars("gold"), Chars("tan"), Chars("navy"),
    Chars("maroon")>>

\* The alternation do you have|need|looking for|want|can i get|any.
AskingPhrases ==
  <<Chars("do you have"), Chars("need"), Chars("looking for"), Chars("want"),
    Chars("can i get"), Chars("any")>>

\* The group (pcs?|pieces?|units?|qty) in the order its matches are tried.
UnitWords ==
  <<Chars("pcs"), Chars("pc"), Chars("pieces"), Chars("piece"),
    Chars("units"), Chars("unit"), Chars("qty")>>

\* src/src/types/api.ts: ParsedQuery and ParsedQueryItem
ParsedQuery(productType, color, quantity, urgent) ==
  [productType |-> productType, color |-> color, quantity |-> quantity,
   urgent |-> urgent]

\* text.replace(/\d+\s*(pcs?|pieces?|units?|qty)?/g, ''), from position i on.
removeQuantities(cs, i) ==
  LET scan[j \in 1..(Len(cs) + 1)] ==
        IF j > Len(cs) THEN <<>>
        ELSE IF cs[j] \in Digits
          THEN LET s == RunEnd(cs, RunEnd(cs, j, Digits), Spaces)
                   u == FirstAlternative(cs, s, UnitWords, FALSE)
               IN  scan[IF u = 0 THEN s ELSE s + Len(UnitWords[u])]
        ELSE <<cs[j]>> \o scan[j + 1]
  IN  scan[i]

\* text.replace(/[?!.,]+/g, '')
removePunctuation(cs) ==
  LET Kept(c) == c \notin {"?", "!", ".", ","}
  IN  SelectSeq(cs, Kept)

\* urgentKeywords.some((kw) => lowerQuery.includes(kw))
hasUrgentKeyword(lowerQuery) ==
  \E k \in 1..Len(urgentKeywords) : includes(lowerQuery, urgentKeywords[k])

\* The first of commonColors the text includes, letter case ignored (0: none).
colorIn(phrase) ==
  Find([k \in 1..Len(commonColors) |->
          includes(toLowerCase(phrase), commonColors[k])])

\* The color reported for the color found.
colorName(colorFound) ==
  IF colorFound = 0 THEN Null ELSE Some(Join(commonColors[colorFound]))

\* query.match(/(\d+)/) and parseInt of its group: the first run of digits.
firstNumber(lowerQuery) ==
  The({ IF digitAt = {} THEN Null
        ELSE The({ Some(parseInt(SubSeq(lowerQuery, first,
                                        RunEnd(lowerQuery, first, Digits) - 1))) :
                     first \in {CHOOSE i \in digitAt : \A j \in digitAt : i <= j} }) :
          digitAt \in {{i \in 1..Len(lowerQuery) : lowerQuery[i] \in Digits}} })

\* The chain of replace calls that leaves the product phrase, each applied to
\* the text the call before it returned: quantities, urgency keywords, colors
\* and asking phrases are taken out, whitespace is collapsed, punctuation is
\* dropped.
productPhrase(lowerQuery) ==
  The({ trim(removePunctuation(residue)) :
          residue \in
            { trim(collapseSpaces(withoutPhrases)) :
                withoutPhrases \in
                  { removeWords(withoutColors, 1, AskingPhrases, TRUE) :
                      withoutColors \in
                        { removeWords(withoutUrgency, 1, commonColors, FALSE) :
                            withoutUrgency \in
                              { removeWords(withoutQuantities, 1, urgentKeywords, FALSE) :
                                  withoutQuantities \in
                                    {removeQuantities(lowerQuery, 1)} } } } } })

\* ParserService.fallbackParse, computed on the text of the query.
fallbackParseText(query) ==
  The({ The({ ParsedQuery(IF productType # <<>> THEN Join(productType) ELSE query,
                          colorName(colorIn(lowerQuery)),
                          firstNumber(lowerQuery),
                          hasUrgentKeyword(lowerQuery)) :
                productType \in {productPhrase(lowerQuery)} }) :
          lowerQuery \in {toLowerCase(Chars(query))} })

\* The lookahead (?=[,;]|\s+and\s+|\s+\d|$|\)) holds at position e.
SegmentStopsAt(cs, e) ==
  LET s == RunEnd(cs, e, Spaces)
  IN  \/ e = Len(cs) + 1
      \/ e <= Len(cs) /\ cs[e] \in {",", ";", ")"}
      \/ /\ s > e
         /\ \/ s <= Len(cs) /\ cs[s] \in Digits
            \/ /\ MatchAt(cs, s, Chars("and"))
               /\ s + 3 <= Len(cs)
               /\ cs[s + 3] \in Spaces

\* ([a-zA-Z][a-zA-Z\s-]*?) followed by the lookahead, started at position g:
\* the end of the shortest phrase the lookahead accepts (0: no match).
SegmentEnd(cs, g) ==
  IF g > Len(cs) \/ cs[g] \notin Letters THEN 0
  ELSE The({ IF ends = {} THEN 0 ELSE CHOOSE e \in ends : \A f \in ends : e <= f :
               ends \in
                 {{e \in (g + 1)..(Len(cs) + 1) :
                     /\ \A j \in (g + 1)..(e - 1) :
                          cs[j] \in Letters \cup Spaces \cup {"-"}
                     /\ SegmentStopsAt(cs, e)}} })

\* The group (?:pcs?|pieces?|units?) in the order its matches are tried.
SegmentUnits ==
  <<Chars("pcs"), Chars("pc"), Chars("pieces"), Chars("piece"),
    Chars("units"), Chars("unit")>>

\* (?:of\s+)? tried at position u behind optional whitespace: behind the
\* word "of" and its whitespace first, then in front of it.
StartsBehind(cs, u) ==
  LET Behind(s2, behindOf) ==
        IF MatchAt(cs, s2, Chars("of")) /\ behindOf > s2 + 2
          THEN <<behindOf, s2>>
        ELSE <<s2>>
  IN  The({ The({Behind(s2, behindOf) : behindOf \in {RunEnd(cs, s2 + 2, Spaces)}}) :
              s2 \in {RunEnd(cs, u, Spaces)} })

\* The positions at which the product phrase can start once the number has
\* ended at position e, in the order the matcher tries them: behind each unit
\* word that matches (longest spelling first) and then behind none, and for
\* each of these behind the word "of" and then at it.
SegmentStarts(cs, e) ==
  LET Matching(s1) ==
        [k \in 1..Len(SegmentUnits) |-> MatchAt(cs, s1, SegmentUnits[k])]
      RECURSIVE All(_, _, _)
      All(s1, matching, k) ==
        IF k > Len(SegmentUnits) THEN StartsBehind(cs, s1)
        ELSE (IF matching[k] THEN StartsBehind(cs, s1 + Len(SegmentUnits[k]))
              ELSE <<>>)
               \o All(s1, matching, k + 1)
  IN  The({ The({All(s1, matching, 1) : matching \in {Matching(s1)}}) :
              s1 \in {RunEnd(cs, e, Spaces)} })

\* The first of the starts from which the product phrase matches (0: none).
PhraseStart(cs, e) ==
  The({ The({IF n = 0 THEN 0 ELSE starts[n] :
               n \in {Find([k \in 1..Len(starts) |-> SegmentEnd(cs, starts[k]) # 0])}}) :
          starts \in {SegmentStarts(cs, e)} })

\* The pattern of fallbackParseMulti tried at position i:
\* <<end of the number, start of the phrase, end of the phrase>>, or <<>>.
QuantitySegmentAt(cs, i) ==
  LET Matched(ends, from) ==
        The({ IF m = 0 THEN <<>>
              ELSE <<ends[m], from[m], SegmentEnd(cs, from[m])>> :
                m \in {Find([k \in 1..Len(ends) |-> from[k] # 0])} })
      From(ends) ==
        The({ Matched(ends, from) :
                from \in {[k \in 1..Len(ends) |-> PhraseStart(cs, ends[k])]} })
  IN  The({From(ends) : ends \in {NumberEnds(cs, i, 0)}})

\* [...query.matchAll(pattern)] from position i on: the groups 1 and 2 of
\* each match, as characters.
RECURSIVE matchAllSegments(_, _)
matchAllSegments(cs, i) ==
  The({ IF hits = {} THEN <<>>
        ELSE The({ << <<SubSeq(cs, m.at, m.ends[1] - 1),
                        SubSeq(cs, m.ends[2], m.ends[3] - 1)>> >>
                     \o matchAllSegments(cs, m.ends[3]) :
                     m \in { [at |-> j, ends |-> QuantitySegmentAt(cs, j)] :
                              j \in {Lowest(hits)} } }) :
          hits \in {{j \in i..Len(cs) : QuantitySegmentAt(cs, j) # <<>>}} })

\* The body of the loop over the matches: the item pushed for one match, or
\* <<>> when the match is skipped.
segmentItems(match, globalUrgent) ==
  LET Item(productType, colorFound, quantity) ==
        IF Len(productType) > 0
          THEN <<ParsedQuery(Join(productType), colorName(colorFound),
                             IF quantity > 0 THEN Some(quantity) ELSE Null,
                             globalUrgent)>>
        ELSE <<>>
      withoutColor(phrase, colorFound) ==
        IF colorFound = 0 THEN phrase
        ELSE trim(removeWords(phrase, 1, <<commonColors[colorFound]>>, TRUE))
      Cleaned(phrase, colorFound) ==
        The({ The({Item(productType, colorFound, quantity) :
                     quantity \in {parseInt(removeCommas(match[1]))}}) :
                productType \in
                  {The({trim(cs) : cs \in {collapseSpaces(withoutColor(phrase, colorFound))}})} })
  IN  The({ IF Len(phrase) < 2 THEN <<>>
            ELSE The({Cleaned(phrase, colorFound) : colorFound \in {colorIn(phrase)}}) :
              phrase \in {trim(match[2])} })

\* src/src/types/api.ts: MultiParsedQuery
MultiParsedQuery(items, globalUrgent) ==
  [items |-> items, globalUrgent |-> globalUrgent]

\* The loop over the matches with each item put in front of the items pushed
\* before it.
RECURSIVE pushItems_newestFirst(_, _, _)
pushItems_newestFirst(matches, n, globalUrgent) ==
  IF n > Len(matches) THEN <<>>
  ELSE pushItems_newestFirst(matches, n + 1, globalUrgent)
         \o segmentItems(matches[n], globalUrgent)

\* The items pushed by the loop over the matches, from match n on.
RECURSIVE pushItems(_, _, _)
pushItems(matches, n, globalUrgent) ==
  IF n > Len(matches) THEN <<>>
  ELSE segmentItems(matches[n], globalUrgent)
         \o pushItems(matches, n + 1, globalUrgent)

\* ParserService.fallbackParseMulti, computed on the text of the query.
fallbackParseMultiText(query) ==
  The({ The({ MultiParsedQuery(IF Len(items) = 0 THEN <<fallbackParseText(query)>>
                               ELSE items,
                               globalUrgent) :
                items \in
                  { pushItems(matches, 1, globalUrgent) :
                      matches \in {matchAllSegments(Chars(query), 1)} } }) :
          globalUrgent \in {hasUrgentKeyword(toLowerCase(Chars(query)))} })

\* ------------------------------------------------- segmented messages

\* The parts of a message made of quantity-anchored segments: the quantity as
\* written and its value, what stands between the quantity and the product,
\* and the product phrase as written with its product type and color.
SegmentQuantities ==
  {[text |-> "1,500", value |-> 1500], [text |-> "20", value |-> 20]}

SegmentUnitTexts == {" ", " pcs "}

SegmentPhrases ==
  { [text |-> "t-shirts", productType |-> "t-shirts", color |-> Null],
    [text |-> "hoodies", productType |-> "hoodies", color |-> Null],
    [text |-> "red caps", productType |-> "caps", color |-> Some("red")] }

Separators == {", ", "; ", " and "}

\* One segment: its text, and the item it stands for.
SegmentOf(q, u, p) ==
  [ text |-> q.text \o u \o p.text,
    items |-> << [ productType |-> p.productType, color |-> p.color,
                   quantity |-> Some(q.value), urgent |-> FALSE ] >> ]

Segments ==
  { SegmentOf(q, u, p) :
      q \in SegmentQuantities, u \in SegmentUnitTexts, p \in SegmentPhrases }

\* The segments of the messages of three segments: 20 of each product.
BareSegments ==
  {SegmentOf([text |-> "20", value |-> 20], " ", p) : p \in SegmentPhrases}

\* Messages of one, two and three segments, each with the items its segments
\* stand for, in text order.
SegmentedMessages ==
  Segments
    \cup { [text |-> a.text \o sep \o b.text, items |-> a.items \o b.items] :
             a \in Segments, b \in Segments, sep \in Separators }
    \cup { [ text |-> a.text \o sep \o b.text \o sepAfter \o c.text,
             items |-> a.items \o b.items \o c.items ] :
             a \in BareSegments, b \in BareSegments, c \in BareSegments,
             sep \in Separators, sepAfter \in Separators }

SegmentedTexts == {m.text : m \in SegmentedMessages}

\* ------------------------------------------------------ tabulation

\* parseQuantityText, tabulated once over the messages of the model.
ParseQuantityTable == [q \in Queries |-> parseQuantityText(q)]

\* helpers parseQuantityFromQuery
parseQuantityFromQuery(query) ==
  IF query \in Queries THEN ParseQuantityTable[query] ELSE parseQuantityText(query)

\* fallbackParseText, tabulated once over the messages of the model.
FallbackParseTable == [q \in Queries |-> fallbackParseText(q)]

\* ParserService.fallbackParse
fallbackParse(query) ==
  IF query \in Queries THEN FallbackParseTable[query] ELSE fallbackParseText(query)

\* fallbackParseMultiText, tabulated once over the messages of the model.
FallbackParseMultiTable == [q \in Queries |-> fallbackParseMultiText(q)]

\* fallbackParseMultiText, tabulated once over the segmented messages.
SegmentedParseTable == [q \in SegmentedTexts |-> fallbackParseMultiText(q)]

\* ParserService.fallbackParseMulti
fallbackParseMulti(query) ==
  IF query \in Queries THEN FallbackParseMultiTable[query]
  ELSE IF query \in SegmentedTexts THEN SegmentedParseTable[query]
  ELSE fallbackParseMultiText(query)

\* The product types the deterministic extractor yields for the messages: the
\* productType fields of FallbackParseTable and FallbackParseMultiTable. They
\* only widen the tables below; a string outside the tables is computed.
FallbackTypes ==
  {"flying carpet", "card holder", "500 pcs", "asap", "lanyards", "urgently",
   "badge case ly", "of card holders ly", "hoodies", "t-shirts hoodies",
   "pens", "lanyards and pens", "card holders urgently", "t-shirts"}

\* The color names the deterministic extractor reports.
CommonColorNames == {Join(commonColors[k]) : k \in 1..Len(commonColors)}

\* Every string the specifications below hand to normalize or toLowerCase.
Vocabulary ==
  CustomerSays \cup WeCallIt \cup ResolveTerms \cup WebsiteColorNames
    \cup LocalColorNames \cup ChinaColorCells \cup RequestedColorNames
    \cup ProductNames \cup Categories \cup FindTerms
    \cup Queries \cup ExtractedTypes \cup FallbackTypes \cup CommonColorNames
    \cup {"Clear"}

\* toLowerCase, tabulated once over the strings of the model.
LowerTable == [s \in Vocabulary |-> toLowerCase(Chars(s))]

\* value.toLowerCase(), from a string to the characters of the result.
lower(value) ==
  IF value \in Vocabulary THEN LowerTable[value] ELSE toLowerCase(Chars(value))

\* helpers.ts normalize on the characters of a string.
normalizeChars(cs) == collapseSpaces(trim(toLowerCase(cs)))

\* helpers.ts normalize, from a string to the characters of the result.
normalizeString(value) == normalizeChars(Chars(value))

\* normalizeString, tabulated once over the strings of the model.
NormalizeTable == [s \in Vocabulary |-> normalizeString(s)]

\* helpers.ts normalize, read from the table where the string is in it.
normalize(value) ==
  IF value \in Vocabulary THEN NormalizeTable[value] ELSE normalizeString(value)

\* String.prototype.split(','): the pieces between the commas, in order; a
\* string without a comma is one piece.
RECURSIVE splitComma(_)
splitComma(cs) ==
  LET commas == {i \in 1..Len(cs) : cs[i] = ","}
  IN  IF commas = {} THEN <<cs>>
      ELSE LET k == CHOOSE i \in commas : \A j \in commas : i <= j
           IN  <<SubSeq(cs, 1, k - 1)>> \o splitComma(SubSeq(cs, k + 1, Len(cs)))

\* product.otherNames.split(',').map((n) => normalize(n.trim()))
splitOtherNames(otherNames) ==
  LET pieces == splitComma(Chars(otherNames))
  IN  [k \in 1..Len(pieces) |-> normalizeChars(trim(pieces[k]))]

\* splitOtherNames, tabulated once over the cells of the model.
OtherNamesTable == [s \in OtherNamesCells |-> splitOtherNames(s)]

\* The normalized entries of an otherNames cell.
otherNamesEntries(otherNames) ==
  IF otherNames \in OtherNamesCells THEN OtherNamesTable[otherNames]
  ELSE splitOtherNames(otherNames)

\* helpers.ts containsIgnoreCase
containsIgnoreCase(target, searchTerm) ==
  includes(normalize(target), normalize(searchTerm))

\* ------------------------------------------------------------- catalog

\* src/src/types/product.ts: the fields of a Product.
Product(name, category, otherNames, websiteColors, local, china) ==
  [ name |-> name, category |-> category, url |-> "", otherNames |-> otherNames,
    websiteColors |-> websiteColors,
    sourcing |-> [local |-> local, china |-> china],
    notes |-> "", lastUpdated |-> "" ]

\* src/src/types/product.ts: Synonym
Synonym(customerSays, weCallIt) ==
  [customerSays |-> customerSays, weCallIt |-> weCallIt, notes |-> ""]

\* CacheService.getProducts
getProducts == products

\* CacheService.getSynonyms
getSynonyms == synonyms

LocalTier(supplier, moq, leadTime, colors) ==
  [supplier |-> supplier, moq |-> moq, leadTime |-> leadTime, colors |-> colors]

ChinaTier(available, moq, colors) ==
  [available |-> available, moq |-> moq, air |-> FALSE, sea |-> FALSE,
   colors |-> colors]

\* ----------------------------------------------------- synonym resolver

\* resolveSynonym with one pass over the rows: the first row that matches
\* exactly or as a substring wins.
resolveSynonym_singlePass(term) ==
  LET syns == getSynonyms
      normalizedTerm == normalize(term)
      either == [i \in 1..Len(syns) |->
                   \/ normalize(syns[i].customerSays) = normalizedTerm
                   \/ includes(normalizedTerm, normalize(syns[i].customerSays))]
      match == Find(either)
  IN  IF match # 0 THEN Some(syns[match].weCallIt) ELSE Null

\* resolveSynonym with the substring test of findProducts' otherNames: either
\* side may contain the other.
resolveSynonym_bidirectional(term) ==
  LET syns == getSynonyms
      normalizedTerm == normalize(term)
      direct == [i \in 1..Len(syns) |->
                   normalize(syns[i].customerSays) = normalizedTerm]
      partial == [i \in 1..Len(syns) |->
                   \/ includes(normalizedTerm, normalize(syns[i].customerSays))
                   \/ includes(normalize(syns[i].customerSays), normalizedTerm)]
      directMatch == Find(direct)
      partialMatch == Find(partial)
  IN  IF directMatch # 0 THEN Some(syns[directMatch].weCallIt)
      ELSE IF partialMatch # 0 THEN Some(syns[partialMatch].weCallIt)
      ELSE Null

\* MatcherService.resolveSynonym
resolveSynonym(term) ==
  LET syns == getSynonyms
      normalizedTerm == normalize(term)
      direct == [i \in 1..Len(syns) |->
                   normalize(syns[i].customerSays) = normalizedTerm]
      partial == [i \in 1..Len(syns) |->
                   includes(normalizedTerm, normalize(syns[i].customerSays))]
      directMatch == Find(direct)
      partialMatch == Find(partial)
  IN  IF directMatch # 0 THEN Some(syns[directMatch].weCallIt)
      ELSE IF partialMatch # 0 THEN Some(syns[partialMatch].weCallIt)
      ELSE Null

\* ------------------------------------------------------ product matcher

\* The filter callback with the name compared in either direction, as the
\* otherNames entries are.
productMatches_nameEitherWay(product, searchTerm) ==
  LET normalizedSearch == normalize(searchTerm)
      otherNames == otherNamesEntries(product.otherNames)
  IN  \/ containsIgnoreCase(product.name, searchTerm)
      \/ containsIgnoreCase(searchTerm, product.name)
      \/ containsIgnoreCase(product.category, searchTerm)
      \/ /\ TruthyStr(product.otherNames)
         /\ \E k \in 1..Len(otherNames) :
              \/ includes(otherNames[k], normalizedSearch)
              \/ includes(normalizedSearch, otherNames[k])

\* The filter callback of findProducts on one product.
productMatches(product, searchTerm) ==
  LET normalizedSearch == normalize(searchTerm)
      otherNames == otherNamesEntries(product.otherNames)
  IN  \/ containsIgnoreCase(product.name, searchTerm)
      \/ containsIgnoreCase(product.category, searchTerm)
      \/ /\ TruthyStr(product.otherNames)
         /\ \E k \in 1..Len(otherNames) :
              \/ includes(otherNames[k], normalizedSearch)
              \/ includes(normalizedSearch, otherNames[k])

\* findProducts with the products matched by name ranked before the others.
findProducts_nameMatchesFirst(searchTerm) ==
  LET prods == getProducts
      ByName(i) == containsIgnoreCase(prods[i].name, searchTerm)
      Others(i) == ~ByName(i) /\ productMatches(prods[i], searchTerm)
  IN  SelectSeq(Positions(Len(prods)), ByName)
        \o SelectSeq(Positions(Len(prods)), Others)

\* MatcherService.findProducts. The array returned holds references to the
\* cached Product objects: it is given as their positions in the cache.
findProducts(searchTerm) ==
  LET prods == getProducts
      Matches(i) == productMatches(prods[i], searchTerm)
  IN  SelectSeq(Positions(Len(prods)), Matches)

\* ------------------------------------------------ color availability

ColorAvailability(available, source, note) ==
  [available |-> available, source |-> source, note |-> note]

\* c.includes(colorLower) || colorLower.includes(c) for some c of the list.
SomeColorMatches(colors, colorLower) ==
  \E i \in 1..Len(colors) :
    \/ includes(lower(colors[i]), colorLower)
    \/ includes(colorLower, lower(colors[i]))

\* The overseas descriptor names a generic capability or the color itself.
ChinaColorMatches(chinaColors, colorLower) ==
  \/ includes(chinaColors, Chars("pantone"))
  \/ includes(chinaColors, Chars("any"))
  \/ includes(chinaColors, colorLower)

\* checkColorAvailability with the local tier tested before the storefront.
checkColorAvailability_localFirst(product, requestedColor) ==
  IF requestedColor = Null \/ ~TruthyStr(requestedColor[1])
    THEN ColorAvailability(TRUE, "any", Null)
  ELSE
    LET colorLower == lower(requestedColor[1])
    IN  IF SomeColorMatches(product.sourcing.local.colors, colorLower)
          THEN ColorAvailability(TRUE, "local", Null)
        ELSE IF SomeColorMatches(product.websiteColors, colorLower)
          THEN ColorAvailability(TRUE, "website", Null)
        ELSE IF ChinaColorMatches(lower(product.sourcing.china.colors),
                                  colorLower)
          THEN ColorAvailability(TRUE, "china",
                                 Some("Custom Pantone color available"))
        ELSE ColorAvailability(FALSE, "any", Null)

\* checkColorAvailability whose local branch returns the storefront's label.
checkColorAvailability_localAsWebsite(product, requestedColor) ==
  IF requestedColor = Null \/ ~TruthyStr(requestedColor[1])
    THEN ColorAvailability(TRUE, "any", Null)
  ELSE
    LET colorLower == lower(requestedColor[1])
    IN  IF SomeColorMatches(product.websiteColors, colorLower)
          THEN ColorAvailability(TRUE, "website", Null)
        ELSE IF SomeColorMatches(product.sourcing.local.colors, colorLower)
          THEN ColorAvailability(TRUE, "website", Null)
        ELSE IF ChinaColorMatches(lower(product.sourcing.china.colors),
                                  colorLower)
          THEN ColorAvailability(TRUE, "china",
                                 Some("Custom Pantone color available"))
        ELSE ColorAvailability(FALSE, "any", Null)

\* MatcherService.checkColorAvailability
checkColorAvailability(product, requestedColor) ==
  IF requestedColor = Null \/ ~TruthyStr(requestedColor[1])
    THEN ColorAvailability(TRUE, "any", Null)
  ELSE
    LET colorLower == lower(requestedColor[1])
    IN  IF SomeColorMatches(product.websiteColors, colorLower)
          THEN ColorAvailability(TRUE, "website", Null)
        ELSE IF SomeColorMatches(product.sourcing.local.colors, colorLower)
          THEN ColorAvailability(TRUE, "local", Null)
        ELSE IF ChinaColorMatches(lower(product.sourcing.china.colors),
                                  colorLower)
          THEN ColorAvailability(TRUE, "china",
                                 Some("Custom Pantone color available"))
        ELSE ColorAvailability(FALSE, "any", Null)

\* ------------------------------------------------- sourcing recommender

Recommendation(source, supplier, moq, leadTime, reason) ==
  [source |-> source, supplier |-> supplier, moq |-> moq,
   leadTime |-> leadTime, reason |-> reason]

LocalRecommendation(local, reason) ==
  Recommendation("local", StrOrUndefined(local.supplier),
                 NumOrUndefined(local.moq), StrOrUndefined(local.leadTime),
                 reason)

\* recommendSourcing with the urgency rule evaluated after the quantity rules.
recommendSourcing_urgencyLast(product, quantity, urgent) ==
  LET local == product.sourcing.local
      china == product.sourcing.china
  IN  IF ~china.available
        THEN LocalRecommendation(local,
               "China sourcing not available for this product")
      ELSE IF TruthyNum(quantity) /\ TruthyNum(china.moq)
              /\ quantity[1] < china.moq[1]
        THEN LocalRecommendation(local,
               "Quantity " \o ToString(quantity[1]) \o " below China MOQ ("
               \o ToString(china.moq[1]) \o ")")
      ELSE IF TruthyNum(quantity) /\ TruthyNum(china.moq)
              /\ quantity[1] >= china.moq[1]
        THEN Recommendation("china", Null, china.moq, Null,
               "Quantity " \o ToString(quantity[1]) \o " meets China MOQ ("
               \o ToString(china.moq[1]) \o "), better pricing")
      ELSE IF urgent
        THEN LocalRecommendation(local,
               "Urgent delivery requested - local supplier fastest")
      ELSE LocalRecommendation(local,
               "Default to local supplier for standard orders")

\* recommendSourcing with the availability test after the quantity rules.
recommendSourcing_availabilityLast(product, quantity, urgent) ==
  LET local == product.sourcing.local
      china == product.sourcing.china
  IN  IF urgent
        THEN LocalRecommendation(local,
               "Urgent delivery requested - local supplier fastest")
      ELSE IF TruthyNum(quantity) /\ TruthyNum(china.moq)
              /\ quantity[1] < china.moq[1]
        THEN LocalRecommendation(local,
               "Quantity " \o ToString(quantity[1]) \o " below China MOQ ("
               \o ToString(china.moq[1]) \o ")")
      ELSE IF TruthyNum(quantity) /\ TruthyNum(china.moq)
              /\ quantity[1] >= china.moq[1]
        THEN Recommendation("china", Null, china.moq, Null,
               "Quantity " \o ToString(quantity[1]) \o " meets China MOQ ("
               \o ToString(china.moq[1]) \o "), better pricing")
      ELSE IF ~china.available
        THEN LocalRecommendation(local,
               "China sourcing not available for this product")
      ELSE LocalRecommendation(local,
               "Default to local supplier for standard orders")

\* recommendSourcing whose last rule picks the overseas tier when its MOQ is
\* known.
recommendSourcing_defaultChina(product, quantity, urgent) ==
  LET local == product.sourcing.local
      china == product.sourcing.china
  IN  IF ~china.available
        THEN LocalRecommendation(local,
               "China sourcing not available for this product")
      ELSE IF urgent
        THEN LocalRecommendation(local,
               "Urgent delivery requested - local supplier fastest")
      ELSE IF TruthyNum(quantity) /\ TruthyNum(china.moq)
              /\ quantity[1] < china.moq[1]
        THEN LocalRecommendation(local,
               "Quantity " \o ToString(quantity[1]) \o " below China MOQ ("
               \o ToString(china.moq[1]) \o ")")
      ELSE IF TruthyNum(quantity) /\ TruthyNum(china.moq)
              /\ quantity[1] >= china.moq[1]
        THEN Recommendation("china", Null, china.moq, Null,
               "Quantity " \o ToString(quantity[1]) \o " meets China MOQ ("
               \o ToString(china.moq[1]) \o "), better pricing")
      ELSE IF TruthyNum(china.moq)
        THEN Recommendation("china", Null, china.moq, Null,
               "Default to China for standard orders")
      ELSE LocalRecommendation(local,
               "Default to local supplier for standard orders")

\* recommendSourcing with the overseas tier recommended only above its MOQ.
recommendSourcing_strictlyAbove(product, quantity, urgent) ==
  LET local == product.sourcing.local
      china == product.sourcing.china
  IN  IF ~china.available
        THEN LocalRecommendation(local,
               "China sourcing not available for this product")
      ELSE IF urgent
        THEN LocalRecommendation(local,
               "Urgent delivery requested - local supplier fastest")
      ELSE IF TruthyNum(quantity) /\ TruthyNum(china.moq)
              /\ quantity[1] < china.moq[1]
        THEN LocalRecommendation(local,
               "Quantity " \o ToString(quantity[1]) \o " below China MOQ ("
               \o ToString(china.moq[1]) \o ")")
      ELSE IF TruthyNum(quantity) /\ TruthyNum(china.moq)
              /\ quantity[1] > china.moq[1]
        THEN Recommendation("china", Null, china.moq, Null,
               "Quantity " \o ToString(quantity[1]) \o " meets China MOQ ("
               \o ToString(china.moq[1]) \o "), better pricing")
      ELSE LocalRecommendation(local,
               "Default to local supplier for standard orders")

\* MatcherService.recommendSourcing
recommendSourcing(product, quantity, urgent) ==
  LET local == product.sourcing.local
      china == product.sourcing.china
  IN  IF ~china.available
        THEN LocalRecommendation(local,
               "China sourcing not available for this product")
      ELSE IF urgent
        THEN LocalRecommendation(local,
               "Urgent delivery requested - local supplier fastest")
      ELSE IF TruthyNum(quantity) /\ TruthyNum(china.moq)
              /\ quantity[1] < china.moq[1]
        THEN LocalRecommendation(local,
               "Quantity " \o ToString(quantity[1]) \o " below China MOQ ("
               \o ToString(china.moq[1]) \o ")")
      ELSE IF TruthyNum(quantity) /\ TruthyNum(china.moq)
              /\ quantity[1] >= china.moq[1]
        THEN Recommendation("china", Null, china.moq, Null,
               "Quantity " \o ToString(quantity[1]) \o " meets China MOQ ("
               \o ToString(china.moq[1]) \o "), better pricing")
      ELSE LocalRecommendation(local,
               "Default to local supplier for standard orders")

\* src/src/types/product.ts: ProductMatch; position is the place of the
\* referenced Product in the cache.
ProductMatch(position, product, colorAvailability, recommendation) ==
  [ position |-> position, product |-> product,
    colorMatch |->
      [ onWebsite |-> colorAvailability.source = "website",
        fromLocal |-> colorAvailability.source \in {"local", "website"},
        fromChina |-> /\ product.sourcing.china.available
                      /\ ( \/ colorAvailability.source = "china"
                           \/ colorAvailability.available ) ],
    recommendation |-> recommendation ]

\* `resolved || searchTerm` for resolved: string | null.
OrElse(resolved, searchTerm) ==
  IF resolved # Null /\ TruthyStr(resolved[1]) THEN resolved[1] ELSE searchTerm

\* The element of matches.map for the product at a catalog position.
matchOf(position, color, quantity, urgent) ==
  ProductMatch(position, getProducts[position],
               checkColorAvailability(getProducts[position], color),
               recommendSourcing(getProducts[position], quantity, urgent))

\* MatcherService.getProductMatches
getProductMatches(searchTerm, color, quantity, urgent) ==
  The({ [k \in 1..Len(found) |-> matchOf(found[k], color, quantity, urgent)] :
          found \in
            { findProducts(effectiveSearchTerm) :
                effectiveSearchTerm \in
                  { OrElse(resolved, searchTerm) :
                      resolved \in {resolveSynonym(searchTerm)} } } })

\* --------------------------------------------------- external extractor

\* The outcome of client.messages.create and of JSON.parse on its text. The
\* call rejects, or resolves with a first content block that is not text, or
\* resolves with a text block; the text is unparseable or parses to a JSON
\* value. A field of an object that is absent or null is Null.
Rejected == [kind |-> "rejected"]

NonText == [kind |-> "nonText"]

Text(json) == [kind |-> "text", json |-> json]

Unparseable == [t |-> "unparseable"]

JsonNull == [t |-> "null"]

JsonNumber == [t |-> "number"]

JsonObject(productType, color, quantity, urgent) ==
  [t |-> "object", productType |-> productType, color |-> color,
   quantity |-> quantity, urgent |-> urgent]

JsonArray(items) == [t |-> "array", items |-> items]

\* parsed[name] for the value JSON.parse returned: a property read on a
\* number or an array gives undefined.
Field(json, name) == IF json.t = "object" THEN json[name] ELSE Null

\* `value || fallback` for a string field.
StrOr(value, fallback) ==
  IF value # Null /\ TruthyStr(value[1]) THEN value[1] ELSE fallback

\* `value || null` for a string field.
StrOrNull(value) ==
  IF value # Null /\ TruthyStr(value[1]) THEN value ELSE Null

\* `value || null` for a number field.
NumOrNull(value) == IF TruthyNum(value) THEN value ELSE Null

\* `value || fallback` for a boolean field.
BoolOr(value, fallback) ==
  IF value # Null /\ value[1] THEN TRUE ELSE fallback

\* The try block of parseQuery throws: the call rejected, the block is not
\* text, JSON.parse threw, or a property is read on null.
parseQueryThrows(reply) ==
  \/ reply.kind # "text"
  \/ reply.json.t \in {"unparseable", "null"}

\* ParserService.parseQuery, given the outcome of the external call.
parseQuery(query, reply) ==
  IF parseQueryThrows(reply) THEN fallbackParse(query)
  ELSE ParsedQuery(StrOr(Field(reply.json, "productType"), query),
                   StrOrNull(Field(reply.json, "color")),
                   NumOrNull(Field(reply.json, "quantity")),
                   BoolOr(Field(reply.json, "urgent"), FALSE))

\* The try block of parseMultiQuery throws: as in parseQuery, or the parsed
\* value has no map method, or an element of the array is null.
parseMultiQueryThrows(reply) ==
  \/ reply.kind # "text"
  \/ reply.json.t # "array"
  \/ \E n \in 1..Len(reply.json.items) : reply.json.items[n].t = "null"

\* The element of parsed.map for one element of the array.
parsedItem(item, globalUrgent) ==
  ParsedQuery(StrOr(Field(item, "productType"), ""),
              StrOrNull(Field(item, "color")),
              NumOrNull(Field(item, "quantity")),
              BoolOr(Field(item, "urgent"), globalUrgent))

\* ParserService.parseMultiQuery, given the outcome of the external call.
parseMultiQuery(query, reply) ==
  IF parseMultiQueryThrows(reply) THEN fallbackParseMulti(query)
  ELSE The({ MultiParsedQuery(
               [n \in 1..Len(reply.json.items) |->
                  parsedItem(reply.json.items[n], globalUrgent)],
               globalUrgent) :
               globalUrgent \in {hasUrgentKeyword(toLowerCase(Chars(query)))} })

\* --------------------------------------------------------------- routes

\* JavaScript truthiness of a string | null | undefined value.
Truthy(value) == value # Null /\ TruthyStr(value[1])

\* `value ? text : ''` for a string | null value.
IfStr(value, text) == IF Truthy(value) THEN text ELSE ""

\* `value ? text : ''` for a number | null value.
IfNum(value, text) == IF TruthyNum(value) THEN text ELSE ""

\* `a || b` for two number | null values.
NumOr(a, b) == IF TruthyNum(a) THEN a ELSE b

\* The text a template literal puts for a value that is present.
StrOf(value) == IF value = Null THEN "" ELSE value[1]

\* The text a template literal puts for a number that is present.
NumText(value) == IF value = Null THEN "" ELSE ToString(value[1])

\* helpers generateAvailabilitySummary
generateAvailabilitySummary(productName, color, source, supplier, leadTime, quantity) ==
  LET colorPart == IfStr(color, StrOf(color) \o " ")
      qtyPart == IfNum(quantity, " For " \o NumText(quantity) \o " pieces")
      supplierPart == IF Truthy(supplier)
                        THEN " from " \o StrOf(supplier) \o " (local supplier)"
                      ELSE " from local supplier"
      timePart == IfStr(leadTime, ": " \o StrOf(leadTime) \o " lead time")
  IN  IF source = "local"
        THEN colorPart \o productName \o " available" \o supplierPart \o "."
               \o qtyPart \o timePart \o "."
      ELSE colorPart \o productName \o " recommended from China." \o qtyPart
             \o ": better pricing for larger quantities."

\* matches.some((m) => m.colorMatch.onWebsite || m.colorMatch.fromLocal ||
\* m.colorMatch.fromChina)
SomeColorMatch(matches) ==
  \E k \in 1..Len(matches) :
    \/ matches[k].colorMatch.onWebsite
    \/ matches[k].colorMatch.fromLocal
    \/ matches[k].colorMatch.fromChina

\* The response errorMiddleware sends for createError('Query is required',
\* 400, 'INVALID_REQUEST').
QueryRequired ==
  [success |-> FALSE, status |-> 400, code |-> "INVALID_REQUEST"]

\* res.json({ success: true, data })
Success(data) == [success |-> TRUE, status |-> 200, data |-> data]

\* searchProducts: the response for a request body.
searchProducts(body) ==
  IF ~TruthyStr(body.query) THEN QueryRequired
  ELSE The({ The({ Success([ query |-> body.query,
                             synonymResolved |-> synonymResolved,
                             products |-> [k \in 1..Len(found) |->
                                             getProducts[found[k]]],
                             totalFound |-> Len(found) ]) :
                     found \in {findProducts(OrElse(synonymResolved, body.query))} }) :
               synonymResolved \in {resolveSynonym(body.query)} })

\* checkAvailability without the numeric scan of the text: the quantity is
\* the one of the body.
checkAvailabilityStart_bodyQuantityOnly(body) ==
  [ quantity |-> body.quantity,
    synonymFromQuery |-> resolveSynonym(body.query) ]

\* checkAvailability up to `await parserService.parseQuery(query)`: the
\* quantity of the body, or else the one scanned from the text, and the
\* synonym resolved on the raw query.
checkAvailabilityStart(body) ==
  [ quantity |-> IF body.quantity = Null THEN parseQuantityFromQuery(body.query)
                 ELSE body.quantity,
    synonymFromQuery |-> resolveSynonym(body.query) ]

\* The summary of checkAvailability: nothing found, the color not available,
\* or the summary of the first match.
availabilitySummary(parsed, matches, colorAvailable, quantity) ==
  IF Len(matches) = 0
    THEN "No products found matching \"" \o parsed.productType
           \o "\". Please check the product name or try a different search term."
  ELSE IF Truthy(parsed.color) /\ ~colorAvailable
    THEN "Products matching \"" \o parsed.productType \o "\" found, but "
           \o StrOf(parsed.color)
           \o " color is not available. Check available colors in the results."
  ELSE generateAvailabilitySummary(
         matches[1].product.name, parsed.color,
         matches[1].recommendation.source,
         matches[1].recommendation.supplier,
         matches[1].recommendation.leadTime, quantity)

\* The preference with the resolution of the extractor's productType first.
synonymPreferred_parsedFirst(synonymFromQuery, synonymFromParsed) ==
  IF Truthy(synonymFromParsed) THEN synonymFromParsed ELSE synonymFromQuery

\* `synonymFromQuery || synonymFromParsed`
synonymPreferred(synonymFromQuery, synonymFromParsed) ==
  IF Truthy(synonymFromQuery) THEN synonymFromQuery ELSE synonymFromParsed

\* The response of checkAvailability for the matches found.
availabilityResponse(body, parsed, quantity, urgent, synonymResolved, matches) ==
  The({ Success([ query |-> body.query,
                  parsed |-> [ product |-> parsed.productType,
                               color |-> parsed.color,
                               quantity |-> quantity,
                               urgent |-> urgent ],
                  synonymResolved |-> synonymResolved,
                  availability |-> [ found |-> Len(matches) > 0,
                                     colorAvailable |-> colorAvailable,
                                     matchingProducts |-> matches ],
                  summary |-> availabilitySummary(parsed, matches,
                                                  colorAvailable, quantity) ]) :
          colorAvailable \in {SomeColorMatch(matches)} })

\* checkAvailability from the await on: the response, given what was computed
\* before the await and what parseQuery returned.
checkAvailabilityFinish(body, started, parsed) ==
  The({ The({ availabilityResponse(body, parsed, quantity, urgent,
                                   synonymResolved, matches) :
                matches \in
                  { getProductMatches(effectiveProductType, parsed.color,
                                      quantity, urgent) :
                      effectiveProductType \in
                        {OrElse(synonymResolved, parsed.productType)} } }) :
          quantity \in {NumOr(started.quantity, parsed.quantity)},
          urgent \in {body.urgent \/ parsed.urgent},
          synonymResolved \in
            { synonymPreferred(started.synonymFromQuery, synonymFromParsed) :
                synonymFromParsed \in {resolveSynonym(parsed.productType)} } })

\* Array.prototype.join(', ')
RECURSIVE joinComma(_)
joinComma(texts) ==
  IF texts = <<>> THEN ""
  ELSE IF Len(texts) = 1 THEN texts[1]
  ELSE texts[1] \o ", " \o joinComma(Tail(texts))

\* The text of one found product in the combined summary.
foundSummary(r) ==
  IfStr(r.color, StrOf(r.color) \o " ")
    \o r.productName
    \o IfNum(r.quantity, " (" \o NumText(r.quantity) \o " pcs)")
    \o (IF r.source = Some("china") THEN " from China"
        ELSE IfStr(r.supplier, " from " \o StrOf(r.supplier)))

\* The text of one product that was not found in the combined summary.
notFoundName(r) == IfStr(r.color, StrOf(r.color) \o " ") \o r.productName

\* results.filter((r) => r.found)
foundOnly(results) ==
  LET IsFound(r) == r.found
  IN  SelectSeq(results, IsFound)

\* results.filter((r) => !r.found)
notFoundOnly(results) ==
  LET IsNotFound(r) == ~r.found
  IN  SelectSeq(results, IsNotFound)

\* The two sentences of the combined summary.
combinedSentences(available, missing, anyFound, anyNotFound) ==
  IF anyFound /\ anyNotFound THEN available \o " " \o missing
  ELSE IF anyFound THEN available
  ELSE IF anyNotFound THEN missing
  ELSE ""

\* helpers generateMultiAvailabilitySummary
generateMultiAvailabilitySummary(results) ==
  The({ combinedSentences(
          "Available: "
            \o joinComma([k \in 1..Len(found) |-> foundSummary(found[k])]) \o ".",
          "Not found: "
            \o joinComma([k \in 1..Len(notFound) |-> notFoundName(notFound[k])])
            \o ". Please check product names or try different search terms.",
          Len(found) > 0, Len(notFound) > 0) :
          found \in {foundOnly(results)}, notFound \in {notFoundOnly(results)} })

\* The summary of one result of checkMultiAvailability.
itemSummary(item, matches, colorAvailable) ==
  IF Len(matches) = 0
    THEN "No products found matching \"" \o item.productType \o "\"."
  ELSE IF Truthy(item.color) /\ ~colorAvailable
    THEN "\"" \o item.productType \o "\" found, but " \o StrOf(item.color)
           \o " color not available."
  ELSE generateAvailabilitySummary(
         matches[1].product.name, item.color,
         matches[1].recommendation.source,
         matches[1].recommendation.supplier,
         matches[1].recommendation.leadTime, item.quantity)

\* originalQuery of a result: quantity, color and product type of the item.
originalQuery(item) ==
  Join(trim(Chars(IfNum(item.quantity, NumText(item.quantity) \o " pcs ")
                    \o IfStr(item.color, StrOf(item.color) \o " ")
                    \o item.productType)))

\* The result pushed for one item, for the matches found.
resultOf(item, urgent, synonymResolved, matches) ==
  The({ [ originalQuery |-> originalQuery(item),
          parsed |-> [ product |-> item.productType,
                       color |-> item.color,
                       quantity |-> item.quantity,
                       urgent |-> urgent ],
          synonymResolved |-> synonymResolved,
          availability |-> [ found |-> Len(matches) > 0,
                             colorAvailable |-> colorAvailable,
                             matchingProducts |-> matches ],
          summary |-> itemSummary(item, matches, colorAvailable) ] :
          colorAvailable \in {SomeColorMatch(matches)} })

\* The loop body with the urgency of the item alone handed to the matcher.
itemResult_itemUrgencyOnly(item, effectiveUrgent) ==
  The({ The({ resultOf(item, urgent, synonymResolved, matches) :
                matches \in
                  { getProductMatches(effectiveProductType, item.color,
                                      item.quantity, urgent) :
                      effectiveProductType \in
                        {OrElse(synonymResolved, item.productType)} } }) :
          synonymResolved \in {resolveSynonym(item.productType)},
          urgent \in {item.urgent} })

\* The body of the loop of checkMultiAvailability: the result pushed for one
\* item.
itemResult(item, effectiveUrgent) ==
  The({ The({ resultOf(item, urgent, synonymResolved, matches) :
                matches \in
                  { getProductMatches(effectiveProductType, item.color,
                                      item.quantity, urgent) :
                      effectiveProductType \in
                        {OrElse(synonymResolved, item.productType)} } }) :
          synonymResolved \in {resolveSynonym(item.productType)},
          urgent \in {item.urgent \/ effectiveUrgent} })

\* checkMultiAvailability with the urgency of an item carried over to the
\* items behind it.
RECURSIVE pushResults_urgencyCarried(_, _, _)
pushResults_urgencyCarried(items, n, effectiveUrgent) ==
  IF n > Len(items) THEN <<>>
  ELSE <<itemResult(items[n], effectiveUrgent)>>
         \o pushResults_urgencyCarried(items, n + 1,
                                       effectiveUrgent \/ items[n].urgent)

\* checkMultiAvailability with each result put in front of the results
\* pushed before it.
RECURSIVE pushResults_newestFirst(_, _, _)
pushResults_newestFirst(items, n, effectiveUrgent) ==
  IF n > Len(items) THEN <<>>
  ELSE pushResults_newestFirst(items, n + 1, effectiveUrgent)
         \o <<itemResult(items[n], effectiveUrgent)>>

\* The loop `for (const item of multiParsed.items)` from item n on: the
\* results pushed, in order.
RECURSIVE pushResults(_, _, _)
pushResults(items, n, effectiveUrgent) ==
  IF n > Len(items) THEN <<>>
  ELSE <<itemResult(items[n], effectiveUrgent)>>
         \o pushResults(items, n + 1, effectiveUrgent)

\* The entry of the combined summary for one result.
summaryEntry(r) ==
  [ productName |-> IF r.availability.found
                      THEN r.availability.matchingProducts[1].product.name
                    ELSE r.parsed.product,
    color |-> r.parsed.color,
    found |-> r.availability.found,
    source |-> IF r.availability.found
                 THEN Some(r.availability.matchingProducts[1].recommendation.source)
               ELSE Null,
    supplier |-> IF r.availability.found
                   THEN r.availability.matchingProducts[1].recommendation.supplier
                 ELSE Null,
    quantity |-> r.parsed.quantity ]

\* results.filter((r) => r.availability.found).length
totalFound(results) ==
  LET IsFound(r) == r.availability.found
  IN  Len(SelectSeq(results, IsFound))

\* checkMultiAvailability from `await parserService.parseMultiQuery(query)`
\* on: the response, given what parseMultiQuery returned.
checkMultiAvailabilityFinish(body, multiParsed) ==
  The({ Success([ query |-> body.query,
                  totalProductsRequested |-> Len(results),
                  totalProductsFound |-> totalFound(results),
                  results |-> results,
                  combinedSummary |->
                    generateMultiAvailabilitySummary(
                      [k \in 1..Len(results) |-> summaryEntry(results[k])]) ]) :
          results \in
            { pushResults(multiParsed.items, 1, effectiveUrgent) :
                effectiveUrgent \in {body.urgent \/ multiParsed.globalUrgent} } })

\* ------------------------------------------------------------- actions

NoCall == [op |-> "none"]

\* The rest of the state once initialize has loaded the cache and no refresh
\* is in flight.
Loaded ==
  /\ lastRefresh = Some(0)
  /\ isInitialized = TRUE
  /\ refreshes = <<>>
  /\ log = <<>>
  /\ clock = 1

\* A caller invokes matcherService.recommendSourcing on a cached product.
RecommendSourcing(i, quantity, urgent) ==
  /\ i \in 1..Len(products)
  /\ call' = [op |-> "recommendSourcing", product |-> products[i],
              quantity |-> quantity, urgent |-> urgent]
  /\ ret' = recommendSourcing(products[i], quantity, urgent)
  /\ UNCHANGED <<cacheFields, surroundings>>

\* A caller invokes matcherService.resolveSynonym on the cached synonyms.
ResolveSynonym(term) ==
  /\ call' = [op |-> "resolveSynonym", term |-> term]
  /\ ret' = resolveSynonym(term)
  /\ UNCHANGED <<cacheFields, surroundings>>

\* A caller invokes matcherService.checkColorAvailability on a cached product.
CheckColorAvailability(i, requestedColor) ==
  /\ i \in 1..Len(products)
  /\ call' = [op |-> "checkColorAvailability", product |-> products[i],
              requestedColor |-> requestedColor]
  /\ ret' = checkColorAvailability(products[i], requestedColor)
  /\ UNCHANGED <<cacheFields, surroundings>>

\* A caller invokes matcherService.findProducts on the cached products.
FindProducts(searchTerm) ==
  /\ call' = [op |-> "findProducts", searchTerm |-> searchTerm]
  /\ ret' = findProducts(searchTerm)
  /\ UNCHANGED <<cacheFields, surroundings>>

\* A caller invokes matcherService.getProductMatches.
GetProductMatches(searchTerm, color, quantity, urgent) ==
  /\ call' = [op |-> "getProductMatches", searchTerm |-> searchTerm,
              color |-> color, quantity |-> quantity, urgent |-> urgent]
  /\ ret' = getProductMatches(searchTerm, color, quantity, urgent)
  /\ UNCHANGED <<cacheFields, surroundings>>


\* The handler being served is suspended at its await of the extractor.
Awaiting == "pc" \in DOMAIN call /\ call.pc = "awaiting"

\* The handler being served has sent its response.
Responded == "pc" \in DOMAIN call /\ call.pc = "responded"

\* A caller invokes parserService.parseQuery and the external call settles
\* with reply.
ParseQuery(query, reply) ==
  /\ call' = [op |-> "parseQuery", query |-> query, reply |-> reply]
  /\ ret' = parseQuery(query, reply)
  /\ UNCHANGED <<cacheFields, surroundings>>

\* A caller invokes parserService.parseMultiQuery and the external call
\* settles with reply.
ParseMultiQuery(query, reply) ==
  /\ call' = [op |-> "parseMultiQuery", query |-> query, reply |-> reply]
  /\ ret' = parseMultiQuery(query, reply)
  /\ UNCHANGED <<cacheFields, surroundings>>

\* POST /api/product/search
SearchProducts(body) ==
  /\ ~Awaiting
  /\ call' = [op |-> "searchProducts", pc |-> "responded", body |-> body]
  /\ ret' = searchProducts(body)
  /\ UNCHANGED <<cacheFields, surroundings>>

\* POST /api/product/availability: the handler runs up to its await of
\* parseQuery, or responds 400 when the query is missing.
CheckAvailability(body) ==
  /\ ~Awaiting
  /\ IF ~TruthyStr(body.query)
       THEN /\ call' = [op |-> "checkAvailability", pc |-> "responded",
                        body |-> body]
            /\ ret' = QueryRequired
     ELSE /\ call' = [op |-> "checkAvailability", pc |-> "awaiting",
                      body |-> body, extractor |-> "pending",
                      started |-> checkAvailabilityStart(body)]
          /\ ret' = Null
  /\ UNCHANGED <<cacheFields, surroundings>>

\* The external call of parseQuery settles with reply: parseQuery returns and
\* checkAvailability runs to its response.
ParseQueryReturns(reply) ==
  /\ Awaiting
  /\ call.op = "checkAvailability"
  /\ call.extractor = "pending"
  /\ \E parsed \in {parseQuery(call.body.query, reply)} :
         /\ call' = [op |-> "checkAvailability", pc |-> "responded",
                     body |-> call.body, extractor |-> "settled",
                     started |-> call.started, reply |-> reply,
                     parsed |-> parsed]
         /\ ret' = checkAvailabilityFinish(call.body, call.started, parsed)
  /\ UNCHANGED <<cacheFields, surroundings>>

\* History: the batch the multi-availability route served last, as its
\* items, its batch urgency and its results; an empty batch when the last
\* invocation was not one.
LastBatch ==
  IF "multiParsed" \in DOMAIN call
    THEN [ items |-> call.multiParsed.items,
           effectiveUrgent |-> call.body.urgent \/ call.multiParsed.globalUrgent,
           results |-> ret.data.results ]
  ELSE [items |-> <<>>, effectiveUrgent |-> FALSE, results |-> <<>>]

\* POST /api/product/availability-multi: the handler runs up to its await of
\* parseMultiQuery, or responds 400 when the query is missing.
CheckMultiAvailability(body) ==
  /\ ~Awaiting
  /\ IF ~TruthyStr(body.query)
       THEN /\ call' = [op |-> "checkMultiAvailability", pc |-> "responded",
                        body |-> body]
            /\ ret' = QueryRequired
     ELSE /\ call' = [op |-> "checkMultiAvailability", pc |-> "awaiting",
                      body |-> body, extractor |-> "pending",
                      previous |-> LastBatch]
          /\ ret' = Null
  /\ UNCHANGED <<cacheFields, surroundings>>

\* The external call of parseMultiQuery settles with reply: parseMultiQuery
\* returns and checkMultiAvailability runs to its response.
ParseMultiQueryReturns(reply) ==
  /\ Awaiting
  /\ call.op = "checkMultiAvailability"
  /\ call.extractor = "pending"
  /\ \E multiParsed \in {parseMultiQuery(call.body.query, reply)} :
         /\ call' = [op |-> "checkMultiAvailability", pc |-> "responded",
                     body |-> call.body, extractor |-> "settled",
                     previous |-> call.previous, reply |-> reply,
                     multiParsed |-> multiParsed]
         /\ ret' = checkMultiAvailabilityFinish(call.body, multiParsed)
  /\ UNCHANGED <<cacheFields, surroundings>>

\* The external call never settles: the connection stays open and no reply
\* or error ever arrives. The promise the handler awaits stays pending.
ExtractorNeverSettles ==
  /\ Awaiting
  /\ call.extractor = "pending"
  /\ call' = [call EXCEPT !.extractor = "silent"]
  /\ UNCHANGED ret
  /\ UNCHANGED <<cacheFields, surroundings>>

\* ---------------------------------------- specification: sourcing inputs

\* parseNumber yields null or a non-negative integer for a MOQ cell.
Moqs == {Null} \cup {Some(m) : m \in 0..MaxMoq}

\* A quantity reaches the recommender from the request body, the numeric
\* scan or the extractor: null or any integer.
Quantities == {Null} \cup {Some(q) : q \in (-1)..MaxQuantity}

SourcingProducts ==
  { Product("Card Holder", "Holders", "", <<>>,
            LocalTier(supplier, lmoq, leadTime, <<>>),
            ChinaTier(available, cmoq, ""))
    : supplier \in {"", "ABC Supplies"}, lmoq \in {Null, Some(0), Some(100)},
      leadTime \in {"", "5-7 days"}, available \in BOOLEAN, cmoq \in Moqs }

InitSourcing ==
  /\ products \in {<<p>> : p \in SourcingProducts}
  /\ synonyms = <<>>
  /\ Loaded
  /\ call = NoCall
  /\ ret = Null

NextSourcing ==
  \E i \in 1..Len(products), q \in Quantities, u \in BOOLEAN :
    RecommendSourcing(i, q, u)

SpecSourcing == InitSourcing /\ [][NextSourcing]_vars

\* ------------------------------------------------ claims on the recommender

IsRecommend == call.op = "recommendSourcing"

ChinaOf(p) == p.sourcing.china

\* C1: whenever recommendSourcing is called with urgent = true, for any product
\* and any quantity (null included), the recommendation's source is 'local'.
C1_UrgencyOverride ==
  (IsRecommend /\ call.urgent) => ret.source = "local"

\* An urgent call answered 'local' although the same product and quantity
\* without urgency resolve to 'china'.
C1_Witness ==
  /\ IsRecommend /\ call.urgent /\ ret.source = "local"
  /\ recommendSourcing(call.product, call.quantity, FALSE).source = "china"

\* C2: for a non-urgent call on a product with the overseas tier available and
\* a known overseas moq M, quantity M-1 yields source 'local' and quantity M
\* yields source 'china'.
C2_MoqBoundary ==
  ( /\ IsRecommend /\ ~call.urgent
    /\ ChinaOf(call.product).available
    /\ ChinaOf(call.product).moq # Null
    /\ call.quantity # Null )
  => LET M == ChinaOf(call.product).moq[1]
         q == call.quantity[1]
     IN  /\ (q = M - 1 => ret.source = "local")
         /\ (q = M => ret.source = "china")

\* C3: for a product whose overseas tier is not available the source is
\* 'local' for every quantity and urgency, source and reason are the same for
\* every value of the overseas moq, and a 'china' recommendation is only
\* produced for a product whose overseas tier is available.
C3_UnavailableNeverChina ==
  IsRecommend =>
    /\ ( ~ChinaOf(call.product).available =>
           /\ ret.source = "local"
           /\ \A m \in Moqs :
                LET other == recommendSourcing(
                               [call.product EXCEPT !.sourcing.china.moq = m],
                               call.quantity, call.urgent)
                IN  other.source = ret.source /\ other.reason = ret.reason )
    /\ ( ret.source = "china" => ChinaOf(call.product).available )

\* A non-urgent call on an unavailable-overseas product whose quantity clears
\* its overseas moq, answered 'local'.
C3_Witness ==
  /\ IsRecommend /\ ~call.urgent
  /\ ~ChinaOf(call.product).available
  /\ TruthyNum(ChinaOf(call.product).moq) /\ TruthyNum(call.quantity)
  /\ call.quantity[1] >= ChinaOf(call.product).moq[1]
  /\ ret.source = "local"

\* C4: for a non-urgent call on a product with the overseas tier available and
\* an unknown (null) quantity, the source is 'local' and the reason is
\* 'Default to local supplier for standard orders', whatever the overseas moq.
C4_UnknownQuantityDefault ==
  ( /\ IsRecommend /\ ~call.urgent
    /\ ChinaOf(call.product).available
    /\ call.quantity = Null )
  => /\ ret.source = "local"
     /\ ret.reason = "Default to local supplier for standard orders"

\* A null-quantity, non-urgent call on an available-overseas product with a
\* known positive overseas moq, answered with the default.
C4_Witness ==
  /\ IsRecommend /\ ~call.urgent
  /\ ChinaOf(call.product).available
  /\ TruthyNum(ChinaOf(call.product).moq)
  /\ call.quantity = Null
  /\ ret.reason = "Default to local supplier for standard orders"

\* ----------------------------------------- specification: synonym inputs

SynonymRows == {Synonym(c, w) : c \in CustomerSays, w \in WeCallIt}

\* All sequences over S of length at most n.
SeqsUpTo(S, n) == UNION {[1..k -> S] : k \in 0..n}

SynonymTables == SeqsUpTo(SynonymRows, MaxSynonyms)

InitSynonym ==
  /\ products = <<>>
  /\ synonyms \in SynonymTables
  /\ Loaded
  /\ call = NoCall
  /\ ret = Null

NextSynonym == \E term \in ResolveTerms : ResolveSynonym(term)

SpecSynonym == InitSynonym /\ [][NextSynonym]_vars

\* --------------------------------------------------- claims on the resolver

IsResolve == call.op = "resolveSynonym"

\* Least element of a non-empty set of row numbers.
First(S) == CHOOSE i \in S : \A j \in S : i <= j

\* Rows whose normalized customerSays equals the normalized term.
ExactRows(term) ==
  {i \in 1..Len(synonyms) :
     normalize(synonyms[i].customerSays) = normalize(term)}

\* Rows whose normalized customerSays is a substring of the normalized term.
SubstringRows(term) ==
  {i \in 1..Len(synonyms) :
     includes(normalize(term), normalize(synonyms[i].customerSays))}

\* C5: resolveSynonym returns the weCallIt of the first row that matches the
\* term exactly (after normalization) if there is one, even when an earlier
\* row matches as a substring; otherwise the weCallIt of the first row whose
\* normalized customerSays is a substring of the normalized term; otherwise
\* null.
C5_ExactBeforeSubstring ==
  IsResolve =>
    IF ExactRows(call.term) # {}
      THEN ret = Some(synonyms[First(ExactRows(call.term))].weCallIt)
    ELSE IF SubstringRows(call.term) # {}
      THEN ret = Some(synonyms[First(SubstringRows(call.term))].weCallIt)
    ELSE ret = Null

\* The exact row comes after a row that matches as a proper substring and maps
\* elsewhere, and the exact row's weCallIt is returned.
C5_Witness ==
  /\ IsResolve
  /\ ExactRows(call.term) # {}
  /\ \E i \in SubstringRows(call.term) :
       /\ i < First(ExactRows(call.term))
       /\ normalize(synonyms[i].customerSays) # normalize(call.term)
       /\ synonyms[i].customerSays # ""
       /\ synonyms[i].weCallIt # synonyms[First(ExactRows(call.term))].weCallIt
  /\ ret = Some(synonyms[First(ExactRows(call.term))].weCallIt)

\* The term is the weCallIt of some row of the table.
IsCanonicalTerm == \E i \in 1..Len(synonyms) : synonyms[i].weCallIt = call.term

\* C6 as stated: if the weCallIt of a row does not appear as the customerSays
\* of any row, resolving it returns null.
C6_NoSelfResolution ==
  ( /\ IsResolve /\ IsCanonicalTerm
    /\ \A i \in 1..Len(synonyms) : synonyms[i].customerSays # call.term )
  => ret = Null

\* C6 amended: if no row's normalized customerSays is a substring of (or equal
\* to) the normalized weCallIt of a row, resolving that weCallIt returns null.
C6_NoSelfResolutionUnlessContained ==
  ( /\ IsResolve /\ IsCanonicalTerm
    /\ SubstringRows(call.term) = {} )
  => ret = Null

\* A canonical name resolved on a table whose rows all have a customerSays,
\* none of it contained in the name: null.
C6_Witness ==
  /\ IsResolve /\ IsCanonicalTerm
  /\ call.term # ""
  /\ Len(synonyms) = MaxSynonyms
  /\ SubstringRows(call.term) = {}
  /\ ret = Null

\* ------------------------------------------- specification: color inputs

ColorProducts ==
  { Product("Card Holder", "Holders", "", websiteColors,
            LocalTier("ABC Supplies", Some(100), "5-7 days", localColors),
            ChinaTier(TRUE, Some(1000), chinaColors))
    : websiteColors \in SeqsUpTo(WebsiteColorNames, MaxColors),
      localColors \in SeqsUpTo(LocalColorNames, MaxColors),
      chinaColors \in ChinaColorCells }

RequestedColors == {Null} \cup {Some(c) : c \in RequestedColorNames}

InitColor ==
  /\ products \in {<<p>> : p \in ColorProducts}
  /\ synonyms = <<>>
  /\ Loaded
  /\ call = NoCall
  /\ ret = Null

NextColor ==
  \E i \in 1..Len(products), c \in RequestedColors :
    CheckColorAvailability(i, c)

SpecColor == InitColor /\ [][NextColor]_vars

\* --------------------------------------------- claims on the color checker

IsColorCheck == call.op = "checkColorAvailability"

\* Some entry of the list contains the requested color or is contained in it,
\* compared case-insensitively.
ListOffers(colors, color) ==
  \E i \in 1..Len(colors) :
    \/ includes(toLowerCase(Chars(colors[i])), toLowerCase(Chars(color)))
    \/ includes(toLowerCase(Chars(color)), toLowerCase(Chars(colors[i])))

\* The overseas descriptor contains 'pantone', 'any' or the requested color,
\* compared case-insensitively.
DescriptorOffers(descriptor, color) ==
  LET d == toLowerCase(Chars(descriptor))
  IN  \/ includes(d, <<"p", "a", "n", "t", "o", "n", "e">>)
      \/ includes(d, <<"a", "n", "y">>)
      \/ includes(d, toLowerCase(Chars(color)))

\* C9: for a non-null requested color the tiers are tried in fixed priority:
\* source 'website' whenever a website color matches; 'local' only when no
\* website color matches and a local color matches; 'china' only when neither
\* matches and the overseas descriptor offers the color; and
\* {available: false, source: 'any'} exactly when no tier matches.
C9_ColorTierPriority ==
  (IsColorCheck /\ call.requestedColor # Null) =>
    LET color == call.requestedColor[1]
        W == ListOffers(call.product.websiteColors, color)
        L == ListOffers(call.product.sourcing.local.colors, color)
        X == DescriptorOffers(call.product.sourcing.china.colors, color)
    IN  /\ (W => ret.source = "website")
        /\ (ret.source = "local" => ~W /\ L)
        /\ (ret.source = "china" => ~W /\ ~L /\ X)
        /\ ((~ret.available /\ ret.source = "any") <=> (~W /\ ~L /\ ~X))

\* A color offered by the storefront, the local supplier and the overseas
\* descriptor at once, answered 'website'.
C9_Witness ==
  /\ IsColorCheck /\ call.requestedColor # Null
  /\ ListOffers(call.product.websiteColors, call.requestedColor[1])
  /\ ListOffers(call.product.sourcing.local.colors, call.requestedColor[1])
  /\ DescriptorOffers(call.product.sourcing.china.colors, call.requestedColor[1])
  /\ ret.source = "website"

\* C10: when the result is available with source 'website', some entry of the
\* product's websiteColors contains the requested color or is contained in
\* it, compared case-insensitively.
C10_WebsiteSourceIsOnWebsite ==
  ( /\ IsColorCheck /\ call.requestedColor # Null
    /\ ret.available /\ ret.source = "website" )
  => ListOffers(call.product.websiteColors, call.requestedColor[1])

\* A requested color answered 'website' for a product whose local supplier
\* also offers colors.
C10_Witness ==
  /\ IsColorCheck /\ call.requestedColor # Null
  /\ ret.available /\ ret.source = "website"
  /\ call.product.sourcing.local.colors # <<>>
  /\ ~ListOffers(call.product.sourcing.local.colors, call.requestedColor[1])

\* ----------------------------------------- specification: matcher inputs

FindProductRows ==
  { Product(name, category, otherNames, <<"Black", "Dark Red">>,
            LocalTier("ABC Supplies", Some(100), "5-7 days", <<>>),
            ChinaTier(TRUE, Some(1000), ""))
    : name \in ProductNames, category \in Categories,
      otherNames \in OtherNamesCells }

\* The Synonyms sheet while the matcher is exercised.
FindSynonyms == <<Synonym("badge case", "Card Holder")>>

InitFind ==
  /\ products \in SeqsUpTo(FindProductRows, MaxProducts)
  /\ synonyms = FindSynonyms
  /\ Loaded
  /\ call = NoCall
  /\ ret = Null

NextFind ==
  \/ \E term \in FindTerms : FindProducts(term)
  \/ \E term \in FindTerms, color \in {Null, Some("BLACK")} :
       GetProductMatches(term, color, Some(MaxQuantity), FALSE)

SpecFind == InitFind /\ [][NextFind]_vars

\* --------------------------------------------- claims on the product matcher

IsFind == call.op = "findProducts"

IsGetMatches == call.op = "getProductMatches"

\* The comma-separated entries of an otherNames cell, trimmed and normalized;
\* a blank cell has none.
Entries(cell) ==
  IF cell = "" THEN {}
  ELSE LET pieces == splitComma(Chars(cell))
       IN  {normalizeChars(trim(pieces[k])) : k \in 1..Len(pieces)}

\* The substring test of a product against a search term: the normalized term
\* is in the name, or in the category, or it contains or is contained in one
\* of the otherNames entries.
PassesSubstringTest(product, term) ==
  LET t == normalizeString(term)
  IN  \/ includes(normalizeString(product.name), t)
      \/ includes(normalizeString(product.category), t)
      \/ \E e \in Entries(product.otherNames) : includes(e, t) \/ includes(t, e)

\* C7: every product findProducts returns passes the substring test against
\* the search term on its name, its category or one of its otherNames
\* entries.
C7_NoFalsePositives ==
  IsFind =>
    \A k \in 1..Len(ret) : PassesSubstringTest(products[ret[k]], call.searchTerm)

\* A search that returns one product of a catalog and leaves out another.
C7_Witness ==
  /\ IsFind
  /\ Len(ret) >= 1
  /\ Len(ret) < Len(products)
  /\ \E i \in 1..Len(products) :
       ~PassesSubstringTest(products[i], call.searchTerm)

\* The term getProductMatches searches for: the synonym's canonical name when
\* the term resolves to a non-empty one, else the term.
EffectiveTerm(term) ==
  LET hits == {i \in 1..Len(synonyms) :
                 includes(normalizeString(term),
                          normalizeString(synonyms[i].customerSays))}
      exact == {i \in hits :
                  normalizeString(synonyms[i].customerSays) = normalizeString(term)}
      Least(S) == CHOOSE i \in S : \A j \in S : i <= j
      name == IF exact # {} THEN synonyms[Least(exact)].weCallIt
              ELSE IF hits # {} THEN synonyms[Least(hits)].weCallIt
              ELSE ""
  IN  IF name # "" THEN name ELSE term

\* Catalog positions of the products that pass the substring test.
PassingPositions(term) ==
  {i \in 1..Len(products) : PassesSubstringTest(products[i], term)}

\* C8: findProducts returns cache entries in strictly increasing catalog
\* position (a subsequence: no entry twice, catalog order kept);
\* getProductMatches returns one ProductMatch per product found for its
\* effective term, in the same order, so that element 0 is the first matching
\* product of the catalog.
C8_CatalogOrder ==
  /\ IsFind =>
       /\ \A k \in 1..Len(ret) : ret[k] \in 1..Len(products)
       /\ \A j, k \in 1..Len(ret) : j < k => ret[j] < ret[k]
  /\ IsGetMatches =>
       LET found == findProducts(EffectiveTerm(call.searchTerm))
           passing == PassingPositions(EffectiveTerm(call.searchTerm))
       IN  /\ Len(ret) = Len(found)
           /\ \A k \in 1..Len(ret) :
                /\ ret[k].position = found[k]
                /\ ret[k].product = products[found[k]]
           /\ \A j, k \in 1..Len(ret) : j < k => ret[j].position < ret[k].position
           /\ passing # {} =>
                /\ Len(ret) >= 1
                /\ ret[1].position = CHOOSE i \in passing : \A j \in passing : i <= j

\* getProductMatches on a full catalog whose first product does not match and
\* whose last one does: element 0 is the later product.
C8_Witness ==
  /\ IsGetMatches
  /\ Len(products) = MaxProducts
  /\ Len(ret) >= 1
  /\ ret[1].position > 1
  /\ ret[Len(ret)].position = MaxProducts

\* ------------------------------------------ specification: extractor inputs

\* The most elements the array the extractor returns has.
MaxItems == 2

\* The JSON objects the extractor returns for one product: each field present
\* with a value, present with an empty value, or absent.
ExtractedObjects ==
  { JsonObject(p, c, q, u) :
      p \in {Null} \cup {Some(t) : t \in ExtractedTypes},
      c \in {Null, Some("white")},
      q \in {Null, Some(200)},
      u \in {Null, Some(TRUE), Some(FALSE)} }
    \cup {JsonObject(Some(""), Some(""), Some(0), Some(FALSE))}

\* What the external call of parseQuery settles with.
SingleReplies ==
  {Rejected, NonText}
    \cup {Text(j) : j \in {Unparseable, JsonNull, JsonNumber, JsonArray(<<>>)}}
    \cup {Text(j) : j \in ExtractedObjects}

\* The elements of the array the extractor returns for a batch: two products,
\* an object without fields, a number and null.
ExtractedItems ==
  { JsonObject(Some("badge case"), Some("white"), Some(200), Some(FALSE)),
    JsonObject(Some("lanyards"), Null, Null, Some(TRUE)),
    JsonObject(Null, Null, Null, Null),
    JsonNumber,
    JsonNull }

\* What the external call of parseMultiQuery settles with.
MultiReplies ==
  {Rejected, NonText}
    \cup {Text(j) : j \in {Unparseable, JsonNull, JsonNumber,
                           JsonObject(Some("badge case"), Null, Null, Null)}}
    \cup {Text(JsonArray(items)) : items \in SeqsUpTo(ExtractedItems, MaxItems)}

\* The product of the end-to-end scenarios, with what its overseas colors
\* cell says left open.
CardHolder(chinaColors) ==
  Product("Card Holder", "Holders", "", <<"Black", "Clear">>,
          LocalTier("ABC Supplies", Some(100), "5-7 days", <<>>),
          ChinaTier(TRUE, Some(1000), chinaColors))

\* A product without the overseas tier.
LanyardRow ==
  Product("Lanyard", "", "", <<"Black">>,
          LocalTier("", Null, "", <<"White">>),
          ChinaTier(FALSE, Null, ""))

\* The Synonyms sheet of the end-to-end scenarios.
ScenarioSynonyms == <<Synonym("badge case", "Card Holder")>>

InitParser ==
  /\ products = <<CardHolder("")>>
  /\ synonyms = ScenarioSynonyms
  /\ Loaded
  /\ call = NoCall
  /\ ret = Null

NextParser ==
  \/ \E query \in Queries, reply \in SingleReplies : ParseQuery(query, reply)
  \/ \E query \in Queries, reply \in MultiReplies : ParseMultiQuery(query, reply)

SpecParser == InitParser /\ [][NextParser]_vars

\* --------------------------------------- specification: availability route

\* The message of the urgent end-to-end scenario.
UrgentScenario == "Do you have white badge case? Need 200 pieces urgently"

\* Request bodies of the search and availability routes: query present or
\* missing, quantity absent or given, urgent absent (false) or set.
Bodies ==
  { [query |-> query, quantity |-> quantity, urgent |-> urgent] :
      query \in {"", UrgentScenario, "card holder", "flying carpet",
                 "Need 200 pcs of card holders urgently", "500 pcs"},
      quantity \in {Null, Some(1000)},
      urgent \in BOOLEAN }

ScenarioCatalogs ==
  {<<CardHolder(c)>> : c \in ChinaColorCells}
    \cup {<<LanyardRow, CardHolder(c)>> : c \in ChinaColorCells}

InitAvailability ==
  /\ products \in ScenarioCatalogs
  /\ synonyms = ScenarioSynonyms
  /\ Loaded
  /\ call = NoCall
  /\ ret = Null

NextAvailability ==
  \/ \E body \in Bodies : SearchProducts(body)
  \/ \E body \in Bodies : CheckAvailability(body)
  \/ \E reply \in SingleReplies : ParseQueryReturns(reply)
  \/ ExtractorNeverSettles

SpecAvailability == InitAvailability /\ [][NextAvailability]_vars

\* ----------------------------------------- claims on the availability route

IsAvailability == call.op = "checkAvailability" /\ Responded /\ ret.success

IsSearch == call.op = "searchProducts" /\ Responded /\ ret.success

\* The position of the scenario product in the cache.
CardHolderAt ==
  CHOOSE i \in 1..Len(products) : products[i].name = "Card Holder"

\* The external extractor was unavailable: parseQuery took its catch branch.
ExtractorFailed == parseQueryThrows(call.reply)

\* The external extractor reported what the urgent scenario's message says on
\* color and urgency.
ExtractedUrgentWhite ==
  /\ call.reply.kind = "text"
  /\ call.reply.json.t = "object"
  /\ call.reply.json.color = Some("white")
  /\ call.reply.json.urgent = Some(TRUE)

ExtractedCardHolder ==
  /\ call.reply.kind = "text"
  /\ call.reply.json.t = "object"
  /\ call.reply.json.productType = Some("card holder")
  /\ call.reply.json.color = Null
  /\ call.reply.json.urgent # Some(TRUE)

\* C12: on the scenario catalog, checkAvailability on "card holder" with
\* quantity 1000 and urgent false in the body finds the Card Holder and
\* recommends source 'china' with a reason that cites the MOQ 1000.
C12_VolumeScenario ==
  ( /\ IsAvailability
    /\ call.body.query = "card holder"
    /\ call.body.quantity = Some(1000)
    /\ ~call.body.urgent
    /\ ExtractorFailed \/ ExtractedCardHolder )
  => LET first == ret.data.availability.matchingProducts[1]
     IN  /\ ret.data.availability.found
         /\ first.product = products[CardHolderAt]
         /\ first.recommendation.source = "china"
         /\ includes(Chars(first.recommendation.reason), Chars("MOQ (1000)"))
         /\ ret.data.parsed.quantity = Some(1000)

\* The volume scenario answered from the extractor's report, on a catalog
\* that holds another product before the Card Holder.
C12_Witness ==
  /\ IsAvailability
  /\ call.body.query = "card holder"
  /\ call.body.quantity = Some(1000)
  /\ ~call.body.urgent
  /\ ExtractedCardHolder
  /\ Len(products) = 2
  /\ ret.data.availability.matchingProducts[1].recommendation.source = "china"

\* The term matches no synonym row and no product of the cache.
MatchesNothing(term) ==
  /\ SubstringRows(term) = {}
  /\ PassingPositions(term) = {}

\* The summary checkAvailability gives when nothing was found for a term.
NotFoundSummary(term) ==
  "No products found matching \"" \o term
    \o "\". Please check the product name or try a different search term."

MultiBodies ==
  { [query |-> query, urgent |-> urgent] :
      query \in {"", "1,500 pcs t-shirts, 500 pcs hoodies", "card holder",
                 "asap"},
      urgent \in BOOLEAN }

InitBatch ==
  /\ products = <<LanyardRow, CardHolder("Any Pantone")>>
  /\ synonyms = ScenarioSynonyms
  /\ Loaded
  /\ call = NoCall
  /\ ret = Null

\* The elements of the array the extractor returns on the batch route: a
\* product that is sold, an urgent item for a product that is not, and an
\* object without fields.
BatchItems ==
  { JsonObject(Some("badge case"), Some("white"), Some(200), Some(FALSE)),
    JsonObject(Some("lanyards"), Null, Null, Some(TRUE)),
    JsonObject(Null, Null, Null, Null) }

\* What the external call of parseMultiQuery settles with on the batch route.
BatchReplies ==
  {Rejected, NonText}
    \cup {Text(j) : j \in {Unparseable, JsonNull, JsonNumber}}
    \cup {Text(JsonArray(items)) : items \in SeqsUpTo(BatchItems, MaxItems)}

NextBatch ==
  \/ \E body \in MultiBodies : CheckMultiAvailability(body)
  \/ \E reply \in BatchReplies : ParseMultiQueryReturns(reply)
  \/ ExtractorNeverSettles

SpecBatch == InitBatch /\ [][NextBatch]_vars

\* ------------------------------------------------ claims on the extractor

\* The external call failed: it threw, or its first block is not text.
CallFailed(reply) == reply.kind # "text"

\* The text of the reply is not one product: it does not parse, or it parses
\* to something that is not an object.
NotOneProduct(reply) == reply.kind = "text" /\ reply.json.t # "object"

\* The text of the reply is not a list of products: it does not parse, it
\* parses to something that is not an array, or an element of the array is
\* not an object.
NotAProductList(reply) ==
  /\ reply.kind = "text"
  /\ \/ reply.json.t # "array"
     \/ \E n \in 1..Len(reply.json.items) : reply.json.items[n].t # "object"

\* C14: when the external call throws, returns a non-text block or returns
\* text that is unparseable or not of the requested structure, parseQuery
\* and parseMultiQuery return what the deterministic extractor returns for
\* the query.
C14_FailuresFallBack ==
  /\ ( /\ call.op = "parseQuery"
       /\ CallFailed(call.reply) \/ NotOneProduct(call.reply) )
     => ret = fallbackParse(call.query)
  /\ ( /\ call.op = "parseMultiQuery"
       /\ CallFailed(call.reply) \/ NotAProductList(call.reply) )
     => ret = fallbackParseMulti(call.query)

\* C16: for a non-empty query, whatever the external call settles with,
\* parseMultiQuery returns at least one item and every item it returns has a
\* non-empty productType.
C16_UsableBatch ==
  ( /\ call.op = "parseMultiQuery"
    /\ call.query # "" )
  => /\ Len(ret.items) >= 1
     /\ \A n \in 1..Len(ret.items) : ret.items[n].productType # ""

\* --------------------- specification: availability under fair scheduling

\* What the external call settles with when only its settling matters: two
\* failures and two well-formed answers.
SettledReplies ==
  { Rejected,
    NonText,
    Text(JsonObject(Some("card holder"), Null, Null, Null)),
    Text(JsonObject(Some("badge case"), Some("white"), Some(200), Some(TRUE))) }

\* The availability route, suspended at its await of the external extractor.
NextAvailabilityLive ==
  \/ \E body \in Bodies : CheckAvailability(body)
  \/ \E reply \in SettledReplies : ParseQueryReturns(reply)
  \/ ExtractorNeverSettles

\* The event loop resumes the handler once the promise it awaits has settled;
\* whether the external call settles at all is left to the environment.
SpecAvailabilityLive ==
  /\ InitBatch
  /\ [][NextAvailabilityLive]_vars
  /\ WF_vars(\E reply \in SettledReplies : ParseQueryReturns(reply))

\* C15: every availability request that reached its await of the external
\* extractor eventually produces a response, also when the external call
\* never returns. (checkMultiAvailability awaits parseMultiQuery in the same
\* way.)
C15_BoundedResponse == Awaiting ~> Responded

\* ---------------------------------------------- claims on the batch route

\* The multi-availability route has answered a batch.
IsBatch == call.op = "checkMultiAvailability" /\ Responded /\ ret.success

\* The batch urgency of the request being served.
BatchUrgent == call.body.urgent \/ call.multiParsed.globalUrgent

\* C17: the results of checkMultiAvailability are one per extracted item and
\* in the order of the items: the i-th result reports the i-th item's product
\* type, color and quantity, its urgency or the batch's, the synonym resolved
\* for it and the matches of the product it resolves to;
\* totalProductsRequested is the number of items and totalProductsFound the
\* number of results that found something.
C17_OrderAndCounts ==
  IsBatch =>
    LET items == call.multiParsed.items
        data == ret.data
        results == data.results
    IN  /\ Len(results) = Len(items)
        /\ \A i \in 1..Len(items) :
             LET resolved == resolveSynonym(items[i].productType)
             IN  /\ results[i].parsed.product = items[i].productType
                 /\ results[i].parsed.color = items[i].color
                 /\ results[i].parsed.quantity = items[i].quantity
                 /\ results[i].parsed.urgent = (items[i].urgent \/ BatchUrgent)
                 /\ results[i].synonymResolved = resolved
                 /\ results[i].availability.matchingProducts =
                      getProductMatches(OrElse(resolved, items[i].productType),
                                        items[i].color, items[i].quantity,
                                        items[i].urgent \/ BatchUrgent)
                 /\ results[i].availability.found
                      = (Len(results[i].availability.matchingProducts) > 0)
        /\ data.totalProductsRequested = Len(items)
        /\ data.totalProductsFound =
             Cardinality({i \in 1..Len(results) : results[i].availability.found})
        /\ 0 <= data.totalProductsFound
        /\ data.totalProductsFound <= data.totalProductsRequested

\* A batch of two different items of which the first is found and the
\* second is not.
C17_Witness ==
  /\ IsBatch
  /\ Len(call.multiParsed.items) = 2
  /\ call.multiParsed.items[1] # call.multiParsed.items[2]
  /\ ret.data.results[1].availability.found
  /\ ~ret.data.results[2].availability.found
  /\ ret.data.totalProductsFound = 1

\* C18: two batches served from the same catalog that agree on their i-th
\* item (product type, color, quantity, urgency) and on the batch urgency have
\* the same i-th result, whatever their other items are. The batch served
\* before is the one kept in call.previous.
C18_ItemsIndependent ==
  IsBatch =>
    LET items == call.multiParsed.items
        before == call.previous
    IN  \A i \in 1..Len(items) :
          ( /\ i <= Len(before.items)
            /\ before.items[i] = items[i]
            /\ before.effectiveUrgent = BatchUrgent )
          => before.results[i] = ret.data.results[i]

\* Two batches in a row that share their second item, found in the catalog,
\* and differ in their first, of which one is urgent and the other is not.
C18_Witness ==
  /\ IsBatch
  /\ Len(call.multiParsed.items) = 2
  /\ Len(call.previous.items) = 2
  /\ call.previous.effectiveUrgent = BatchUrgent
  /\ call.previous.items[2] = call.multiParsed.items[2]
  /\ call.previous.items[1].urgent # call.multiParsed.items[1].urgent
  /\ ~call.multiParsed.items[2].urgent
  /\ ret.data.results[2].availability.found
  /\ call.previous.results[2] = ret.data.results[2]

\* ------------------------------------------------------- cache refresh

\* The calls of CacheService.refresh a behaviour starts.
MaxRefreshes == 3

\* A fetch from the sheet that has not settled.
Pending == [t |-> "pending"]

\* sheetsService.getProducts() or getSynonyms() rejected.
Failed == [t |-> "failed"]

\* sheetsService.getProducts() or getSynonyms() resolved with rows.
Fetched(rows) == [t |-> "ok", rows |-> rows]

\* What the Products sheet holds when it is fetched.
FetchedProducts == {<<LanyardRow>>, <<LanyardRow, CardHolder("")>>}

\* What the Synonyms sheet holds when it is fetched.
FetchedSynonyms == {<<>>, ScenarioSynonyms}

\* The response errorMiddleware sends for an error without statusCode.
InternalError == [success |-> FALSE, status |-> 500, code |-> "INTERNAL_ERROR"]

\* main has caught the rejection of initialize and called process.exit(1).
Exited == refreshes # <<>> /\ refreshes[1].state = "rejected"

\* refreshes with the record of refresh r replaced.
SetRefresh(r, rec) == [refreshes EXCEPT ![r] = rec]

\* What is logged at level error when refresh rejects, by refresh itself and
\* by the caller that catches the rejection.
rejectionLog(caller) ==
  <<"Failed to refresh cache">>
    \o ( IF caller = "timer" THEN <<"Periodic cache refresh failed">>
         ELSE IF caller = "initialize" THEN <<"Failed to start Product Agent">>
         ELSE <<"Request error">> )

\* CacheService.refresh with a catch block that empties the cache.
RefreshRejects_clearsCache(r, rec, logged) ==
  /\ products' = <<>>
  /\ synonyms' = <<>>
  /\ lastRefresh' = Null
  /\ refreshes' =
       SetRefresh(r, [rec EXCEPT
                        !.state = "rejected",
                        !.response = IF rec.caller = "forced"
                                       THEN Some(InternalError) ELSE Null])
  /\ log' = log \o logged \o rejectionLog(rec.caller)
  /\ UNCHANGED <<isInitialized, clock>>

\* Promise.all rejects: the catch block of refresh logs and rethrows, and the
\* caller reacts: the timer callback logs, refreshCache hands the error to
\* errorMiddleware, main exits.
RefreshRejects(r, rec, logged) ==
  /\ refreshes' =
       SetRefresh(r, [rec EXCEPT
                        !.state = "rejected",
                        !.response = IF rec.caller = "forced"
                                       THEN Some(InternalError) ELSE Null])
  /\ log' = log \o logged \o rejectionLog(rec.caller)
  /\ UNCHANGED <<cacheFields, clock>>

\* The response of refreshCache, or nothing for the other callers.
refreshResponse(rec) ==
  IF rec.caller = "forced"
    THEN Some(Success([ productsLoaded |-> Len(rec.getProducts.rows),
                        synonymsLoaded |-> Len(rec.getSynonyms.rows),
                        refreshTimeMs |-> clock - rec.startTime ]))
  ELSE Null

\* CacheService.refresh with the synonyms left as they were.
RefreshResolves_productsOnly(r, rec, logged) ==
  /\ products' = rec.getProducts.rows
  /\ synonyms' = synonyms
  /\ lastRefresh' = Some(clock)
  /\ isInitialized' = (isInitialized \/ rec.caller = "initialize")
  /\ refreshes' = SetRefresh(r, [rec EXCEPT !.state = "resolved",
                                            !.response = refreshResponse(rec)])
  /\ log' = log \o logged
  /\ clock' = clock + 1

\* Promise.all resolves: refresh assigns the three fields and returns, and
\* the caller continues: initialize sets isInitialized, refreshCache responds.
RefreshResolves(r, rec, logged) ==
  /\ products' = rec.getProducts.rows
  /\ synonyms' = rec.getSynonyms.rows
  /\ lastRefresh' = Some(clock)
  /\ isInitialized' = (isInitialized \/ rec.caller = "initialize")
  /\ refreshes' = SetRefresh(r, [rec EXCEPT !.state = "resolved",
                                            !.response = refreshResponse(rec)])
  /\ log' = log \o logged
  /\ clock' = clock + 1

\* One of the two fetches of refresh r has settled, leaving the record rec:
\* Promise.all rejects on the first rejection, resolves once both fetches
\* have resolved, and ignores what settles after it has rejected.
PromiseAllSettles(r, rec, logged) ==
  IF refreshes[r].state = "fetching" /\ Failed \in {rec.getProducts, rec.getSynonyms}
    THEN RefreshRejects(r, rec, logged)
  ELSE IF refreshes[r].state = "fetching" /\ Pending \notin {rec.getProducts, rec.getSynonyms}
    THEN RefreshResolves(r, rec, logged)
  ELSE /\ refreshes' = SetRefresh(r, rec)
       /\ log' = log \o logged
       /\ UNCHANGED <<cacheFields, clock>>

\* A call of CacheService.refresh starts its two fetches.
StartRefresh(caller) ==
  /\ Len(refreshes) < MaxRefreshes
  /\ ~Exited
  /\ refreshes' = Append(refreshes, [ caller |-> caller,
                                      startTime |-> clock,
                                      getProducts |-> Pending,
                                      getSynonyms |-> Pending,
                                      state |-> "fetching",
                                      response |-> Null ])
  /\ UNCHANGED <<cacheFields, log, clock, call, ret>>

\* main calls cacheService.initialize(), which awaits the first refresh.
Initialize ==
  /\ refreshes = <<>>
  /\ ~isInitialized
  /\ StartRefresh("initialize")

\* The interval set by initialize fires.
TimerFires == isInitialized /\ StartRefresh("timer")

\* POST /api/cache/refresh
RefreshCache == isInitialized /\ StartRefresh("forced")

\* sheetsService.getProducts() of refresh r settles.
GetProductsSettles(r, outcome) ==
  /\ r \in 1..Len(refreshes)
  /\ ~Exited
  /\ refreshes[r].getProducts = Pending
  /\ PromiseAllSettles(r, [refreshes[r] EXCEPT !.getProducts = outcome],
                       IF outcome = Failed
                         THEN <<"Failed to fetch products from sheet">>
                       ELSE <<>>)
  /\ UNCHANGED <<call, ret>>

\* sheetsService.getSynonyms() of refresh r settles.
GetSynonymsSettles(r, outcome) ==
  /\ r \in 1..Len(refreshes)
  /\ ~Exited
  /\ refreshes[r].getSynonyms = Pending
  /\ PromiseAllSettles(r, [refreshes[r] EXCEPT !.getSynonyms = outcome],
                       IF outcome = Failed
                         THEN <<"Failed to fetch synonyms from sheet">>
                       ELSE <<>>)
  /\ UNCHANGED <<call, ret>>

\* Date.prototype.toISOString on the time t: a text that names the time.
toISOString(t) == "T" \o ToString(t)

\* CacheService.getStatus
getStatus ==
  [ products |-> Len(products),
    synonyms |-> Len(synonyms),
    lastRefresh |-> IF lastRefresh = Null THEN "never"
                    ELSE toISOString(lastRefresh[1]),
    isInitialized |-> isInitialized ]

\* GET /health with a status that does not depend on the cache.
healthResponse_alwaysOk ==
  [ status |-> "ok",
    timestamp |-> toISOString(clock),
    cache |-> [ products |-> getStatus.products,
                synonyms |-> getStatus.synonyms,
                lastRefresh |-> getStatus.lastRefresh ] ]

\* GET /health: the response for the state of the cache.
healthResponse ==
  [ status |-> IF getStatus.isInitialized THEN "ok" ELSE "error",
    timestamp |-> toISOString(clock),
    cache |-> [ products |-> getStatus.products,
                synonyms |-> getStatus.synonyms,
                lastRefresh |-> getStatus.lastRefresh ] ]

\* GET /health is served. The server listens once main has awaited
\* initialize, and no longer once main has exited.
Health ==
  /\ isInitialized
  /\ call' = [op |-> "health"]
  /\ ret' = healthResponse
  /\ UNCHANGED <<cacheFields, surroundings>>

\* ------------------------------------------------- specification: cache

\* The requests that read the cache while it is refreshed.
ReaderBodies ==
  { [query |-> query, quantity |-> Null, urgent |-> FALSE] :
      query \in {"badge case", "lanyard"} }

\* The state after construction of the CacheService, before main runs.
InitCache ==
  /\ products = <<>>
  /\ synonyms = <<>>
  /\ lastRefresh = Null
  /\ isInitialized = FALSE
  /\ refreshes = <<>>
  /\ log = <<>>
  /\ clock = 0
  /\ call = NoCall
  /\ ret = Null

NextCache ==
  \/ Initialize
  \/ TimerFires
  \/ RefreshCache
  \/ \E r \in 1..MaxRefreshes,
        outcome \in {Failed} \cup {Fetched(rows) : rows \in FetchedProducts} :
       GetProductsSettles(r, outcome)
  \/ \E r \in 1..MaxRefreshes,
        outcome \in {Failed} \cup {Fetched(rows) : rows \in FetchedSynonyms} :
       GetSynonymsSettles(r, outcome)
  \/ \E body \in ReaderBodies : isInitialized /\ SearchProducts(body)
  \/ Health

SpecCache == InitCache /\ [][NextCache]_vars

\* ------------------------------------------------- claims on the cache

\* Refresh r rejects in this step.
RejectsNow(r) ==
  /\ refreshes[r].state = "fetching"
  /\ refreshes'[r].state = "rejected"

\* Refresh r resolves in this step.
ResolvesNow(r) ==
  /\ refreshes[r].state = "fetching"
  /\ refreshes'[r].state = "resolved"

\* What this step has added to the log.
LoggedNow == SubSeq(log', Len(log) + 1, Len(log'))

\* C19: a step in which a timer-driven or forced refresh fails, because the
\* fetch of the products or of the synonyms failed, leaves products, synonyms
\* and lastRefresh as they were and reports the failure: it is logged, and
\* in addition the forced refresh answers with an error and the timer-driven
\* one logs that the periodic refresh failed. The cached snapshot changes
\* only in a step in which a refresh succeeds, so reads after a failure are
\* served from the snapshot that was there before it.
C19_FailedRefreshKeepsSnapshot ==
  [][ /\ \A r \in 1..Len(refreshes) :
           (RejectsNow(r) /\ refreshes[r].caller \in {"timer", "forced"})
           => /\ products' = products
              /\ synonyms' = synonyms
              /\ lastRefresh' = lastRefresh
              /\ \E k \in 1..Len(LoggedNow) :
                   LoggedNow[k] = "Failed to refresh cache"
              /\ refreshes[r].caller = "forced"
                   => refreshes'[r].response = Some(InternalError)
              /\ refreshes[r].caller = "timer"
                   => LoggedNow[Len(LoggedNow)] = "Periodic cache refresh failed"
      /\ <<products, synonyms, lastRefresh>>' # <<products, synonyms, lastRefresh>>
           => \E r \in 1..Len(refreshes) : ResolvesNow(r)
    ]_vars

\* Refresh r was started by caller and failed.
FailedFor(r, caller) ==
  /\ refreshes[r].caller = caller
  /\ refreshes[r].state = "rejected"

\* After the first load at time 0, a forced refresh has failed on its
\* products and a timer-driven one on its synonyms, and a request is served
\* from the snapshot of the first load.
C19_Witness ==
  /\ isInitialized
  /\ Len(refreshes) = 3
  /\ \E r \in 2..3 : /\ FailedFor(r, "forced")
                     /\ refreshes[r].getProducts = Failed
                     /\ refreshes[r].response = Some(InternalError)
  /\ \E r \in 2..3 : /\ FailedFor(r, "timer")
                     /\ refreshes[r].getSynonyms = Failed
  /\ products = refreshes[1].getProducts.rows
  /\ synonyms = refreshes[1].getSynonyms.rows
  /\ products # <<>>
  /\ lastRefresh = Some(0)
  /\ call.op = "searchProducts"
  /\ ret.success

\* Refresh r has succeeded.
Resolved(r) == refreshes[r].state = "resolved"

\* C20: once the cache serves requests, the products and the synonyms it
\* holds are the ones fetched by one and the same successful refresh,
\* however the fetches of timer-driven and forced refreshes interleave with
\* each other and with requests.
C20_SnapshotFromOneRefresh ==
  isInitialized =>
    /\ lastRefresh # Null
    /\ \E r \in 1..Len(refreshes) :
         /\ Resolved(r)
         /\ products = refreshes[r].getProducts.rows
         /\ synonyms = refreshes[r].getSynonyms.rows

\* Two refreshes in flight at once have both succeeded, with different
\* products and different synonyms, the one that started first finishing
\* last, and a request has been served from the cache.
C20_Witness ==
  /\ isInitialized
  /\ Len(refreshes) = 3
  /\ Resolved(2)
  /\ Resolved(3)
  /\ refreshes[2].getProducts # refreshes[3].getProducts
  /\ refreshes[2].getSynonyms # refreshes[3].getSynonyms
  /\ refreshes[2].response # Null
  /\ refreshes[3].response # Null
  /\ refreshes[2].response[1].data.refreshTimeMs
       > refreshes[3].response[1].data.refreshTimeMs
  /\ products = refreshes[2].getProducts.rows
  /\ synonyms = refreshes[2].getSynonyms.rows
  /\ call.op = "searchProducts"
  /\ ret.success

\* No refresh has succeeded so far.
NeverPopulated == \A r \in 1..Len(refreshes) : ~Resolved(r)

\* C21: in every state in which no refresh has succeeded, what GET /health
\* reports has status 'error' and names 'never' as the time of the last
\* refresh; in every state it reports the number of products and of synonyms
\* the cache holds, and, once a refresh has succeeded, a time of the last
\* refresh that is not before the start of some successful refresh and is
\* before now. A response that was served reports status 'ok'.
C21_HealthReportsPopulation ==
  /\ NeverPopulated =>
       /\ healthResponse.status = "error"
       /\ healthResponse.cache.lastRefresh = "never"
  /\ healthResponse.cache.products = Len(products)
  /\ healthResponse.cache.synonyms = Len(synonyms)
  /\ ~NeverPopulated =>
       \E r \in 1..Len(refreshes), t \in 0..clock :
         /\ Resolved(r)
         /\ refreshes[r].startTime <= t
         /\ t < clock
         /\ healthResponse.cache.lastRefresh = toISOString(t)
  /\ call.op = "health" =>
       /\ ret.status = "ok"
       /\ ret.cache.lastRefresh # "never"

\* The first load has failed on its products, nothing was ever cached, and
\* the report is degraded.
C21_Witness ==
  /\ Len(refreshes) = 1
  /\ refreshes[1].getProducts = Failed
  /\ NeverPopulated
  /\ healthResponse.status = "error"
  /\ healthResponse.cache = [products |-> 0, synonyms |-> 0, lastRefresh |-> "never"]

\* GET /health was served after two refreshes succeeded and reported two
\* products, a synonym and the time of the second refresh.
C21_Served ==
  /\ call.op = "health"
  /\ ret.status = "ok"
  /\ ret.cache = [products |-> 2, synonyms |-> 1, lastRefresh |-> toISOString(1)]

\* ------------------------------------------- specification: orchestrator

\* A Synonyms sheet whose first row has a blank column B.
BlankRowSynonyms ==
  <<Synonym("badge case", ""), Synonym("card holder", "Card Holder")>>

\* A Synonyms sheet in which a canonical name contains the customer term of
\* another row.
ChainedSynonyms ==
  <<Synonym("badge case", "Card Holder"), Synonym("card", "Business Card")>>

\* A second product whose name contains "Card Holder": sold in white on the
\* storefront, without the overseas tier.
CardHolderXL ==
  Product("Card Holder XL", "Holders", "", <<"White">>,
          LocalTier("XYZ Trading", Some(50), "3 days", <<>>),
          ChinaTier(FALSE, Null, ""))

OrchestratorCatalogs ==
  { <<CardHolder("")>>,
    <<LanyardRow, CardHolder("Any Pantone")>>,
    <<CardHolder(""), CardHolderXL>> }

OrchestratorSynonyms == {ScenarioSynonyms, BlankRowSynonyms, ChainedSynonyms}

\* Request bodies of the availability route: the quantity absent, zero or
\* positive.
OrchestratorQueries ==
  {"", UrgentScenario, "card holder", "badge case", "lanyard", "500 pcs"}

OrchestratorBodies ==
  { [query |-> query, quantity |-> quantity, urgent |-> FALSE] :
      query \in OrchestratorQueries,
      quantity \in {Null, Some(0), Some(1000)} }
    \cup { [query |-> query, quantity |-> Null, urgent |-> TRUE] :
             query \in OrchestratorQueries }

\* Request bodies of the search route.
OrchestratorSearches ==
  { [query |-> query, quantity |-> Null, urgent |-> FALSE] :
      query \in {"", "badge case", "card holder"} }

\* What the external call of parseQuery settles with on this route: a
\* failure, and three products, with and without color and quantity.
OrchestratorReplies ==
  { Rejected,
    Text(JsonObject(Some("card holder"), Some("white"), Some(200), Null)),
    Text(JsonObject(Some("lanyard"), Null, Null, Null)),
    Text(JsonObject(Some("badge case"), Some("white"), Null, Some(TRUE))) }

\* Request bodies of the multi-availability route.
OrchestratorMultiBodies ==
  { [query |-> query, urgent |-> FALSE] :
      query \in {"", "card holder", "Need 200 pcs of card holders urgently"} }
    \cup {[query |-> "card holder", urgent |-> TRUE]}

\* The elements of the array the extractor returns on this route: a volume
\* order without an urgency field, and an item marked urgent.
OrchestratorItems ==
  { JsonObject(Some("card holder"), Some("white"), Some(1000), Null),
    JsonObject(Some("lanyard"), Null, Null, Some(TRUE)) }

OrchestratorMultiReplies ==
  {Rejected}
    \cup {Text(JsonArray(items)) : items \in SeqsUpTo(OrchestratorItems, MaxItems)}

InitOrchestrator ==
  /\ products \in OrchestratorCatalogs
  /\ synonyms \in OrchestratorSynonyms
  /\ Loaded
  /\ call = NoCall
  /\ ret = Null

NextOrchestrator ==
  \/ \E body \in OrchestratorSearches : SearchProducts(body)
  \/ \E body \in OrchestratorBodies : CheckAvailability(body)
  \/ \E reply \in OrchestratorReplies : ParseQueryReturns(reply)
  \/ \E body \in OrchestratorMultiBodies : CheckMultiAvailability(body)
  \/ \E reply \in OrchestratorMultiReplies : ParseMultiQueryReturns(reply)

SpecOrchestrator == InitOrchestrator /\ [][NextOrchestrator]_vars

\* ------------------------------------------- claims on the orchestrator

\* checkAvailability has answered from what parseQuery returned.
AvailabilityServed == IsAvailability /\ "parsed" \in DOMAIN call

\* The first of two nullable values that is not null.
FirstNonNull(a, b) == IF a # Null THEN a ELSE b

\* C22: the synonymResolved that checkAvailability reports is the resolution
\* of the raw query whenever that is non-null, otherwise the resolution of
\* the extractor's productType, otherwise null; and the products matched are
\* those of the effective search term: synonymResolved when non-null, else
\* the extractor's productType.
C22_RawQueryPreferred ==
  AvailabilityServed =>
    /\ ret.data.synonymResolved
         = FirstNonNull(resolveSynonym(call.body.query),
                        resolveSynonym(call.parsed.productType))
    /\ ret.data.availability.matchingProducts
         = getProductMatches(
             IF ret.data.synonymResolved # Null THEN ret.data.synonymResolved[1]
             ELSE call.parsed.productType,
             call.parsed.color, ret.data.parsed.quantity, ret.data.parsed.urgent)

\* The first of two nullable strings that is neither null nor empty; the
\* second when there is none.
FirstNonEmpty(a, b) == IF a # Null /\ a[1] # "" THEN a ELSE b

\* C22 (amended): the synonymResolved that checkAvailability reports is the
\* resolution of the raw query whenever that is neither null nor the empty
\* string, otherwise the resolution of the extractor's productType; and the
\* products matched are those of the effective search term: synonymResolved
\* when neither null nor empty, else the extractor's productType.
C22_NonEmptyRawQueryPreferred ==
  AvailabilityServed =>
    /\ ret.data.synonymResolved
         = FirstNonEmpty(resolveSynonym(call.body.query),
                         resolveSynonym(call.parsed.productType))
    /\ ret.data.availability.matchingProducts
         = getProductMatches(
             FirstNonEmpty(ret.data.synonymResolved,
                           Some(call.parsed.productType))[1],
             call.parsed.color, ret.data.parsed.quantity, ret.data.parsed.urgent)

\* The raw query and the extractor's productType resolve to two different
\* canonical names, and the one of the raw query is reported.
C22_Witness ==
  /\ AvailabilityServed
  /\ resolveSynonym(call.body.query) = Some("Card Holder")
  /\ resolveSynonym(call.parsed.productType) = Some("Business Card")
  /\ ret.data.synonymResolved = Some("Card Holder")

\* The raw query resolves to the blank cell of its row, and the resolution of
\* the extractor's productType is reported in its place.
C22_BlankWitness ==
  /\ AvailabilityServed
  /\ resolveSynonym(call.body.query) = Some("")
  /\ ret.data.synonymResolved = Some("Card Holder")

\* Every recommendation of the response was made for the quantity and the
\* urgency the response reports.
RecommendedFor(quantity, urgent) ==
  \A k \in 1..Len(ret.data.availability.matchingProducts) :
    ret.data.availability.matchingProducts[k].recommendation
      = recommendSourcing(ret.data.availability.matchingProducts[k].product,
                          quantity, urgent)

\* C23: the quantity checkAvailability reports in parsed.quantity and
\* recommends for is the one of the request when the request supplies one;
\* when it supplies none, the largest positive number the numeric-with-unit
\* scan of the raw text recognises, whatever the extractor reported; and the
\* extractor's quantity only when the scan recognises nothing.
C23_QuantityPrecedence ==
  AvailabilityServed =>
    /\ ret.data.parsed.quantity
         = IF call.body.quantity # Null THEN call.body.quantity
           ELSE FirstNonNull(parseQuantityFromQuery(call.body.query),
                             call.parsed.quantity)
    /\ RecommendedFor(ret.data.parsed.quantity, ret.data.parsed.urgent)

\* C23 (amended): the quantity checkAvailability reports and recommends for
\* is the one of the request when the request supplies one that is not zero;
\* when the request supplies none, the largest positive number the scan of
\* the raw text recognises, whatever the extractor reported; and the
\* extractor's quantity when the scan recognises nothing or the request
\* supplies zero.
C23_NonZeroQuantityPrecedence ==
  AvailabilityServed =>
    /\ ret.data.parsed.quantity
         = IF call.body.quantity # Null /\ call.body.quantity[1] # 0
             THEN call.body.quantity
           ELSE IF call.body.quantity = Null
             THEN FirstNonNull(parseQuantityFromQuery(call.body.query),
                               call.parsed.quantity)
           ELSE call.parsed.quantity
    /\ RecommendedFor(ret.data.parsed.quantity, ret.data.parsed.urgent)
    /\ call.body.query = UrgentScenario =>
         parseQuantityFromQuery(call.body.query) = Some(200)
    /\ call.body.query = "500 pcs" =>
         parseQuantityFromQuery(call.body.query) = Some(500)

\* The request supplies no quantity, the text says 500 pcs, the extractor
\* reported 200, and 500 is the quantity reported and recommended for.
C23_Witness ==
  /\ AvailabilityServed
  /\ call.body.quantity = Null
  /\ call.parsed.quantity = Some(200)
  /\ ret.data.parsed.quantity = Some(500)

\* The request supplies the quantity 1000 for a text that says 200 pieces,
\* and the Card Holder is recommended from China for it.
C23_SuppliedWitness ==
  /\ AvailabilityServed
  /\ call.body.query = UrgentScenario
  /\ call.body.quantity = Some(1000)
  /\ ret.data.parsed.quantity = Some(1000)
  /\ ~ret.data.parsed.urgent
  /\ Len(ret.data.availability.matchingProducts) >= 1
  /\ ret.data.availability.matchingProducts[1].recommendation.source = "china"

\* ------------------------------------ specification: segmented messages

\* The prompt's example of a message naming two products.
TwoProductsExample == "1,500 pcs t-shirts, 500 pcs hoodies"

\* parseMultiQuery on a segmented message while the external extractor is
\* unavailable: the deterministic extractor answers.
NextSegments ==
  \E query \in SegmentedTexts \cup {TwoProductsExample},
     reply \in {Rejected, NonText} :
    ParseMultiQuery(query, reply)

SpecSegments == InitParser /\ [][NextSegments]_vars

\* An item of a batch.
BatchItem(productType, color, quantity) ==
  [productType |-> productType, color |-> color, quantity |-> Some(quantity),
   urgent |-> FALSE]

C24_ExampleWitness ==
  /\ call.op = "parseMultiQuery"
  /\ call.query = TwoProductsExample
  /\ call.reply = NonText
  /\ Len(ret.items) = 2
  /\ ret.items[1].quantity = Some(1500)

\* checkMultiAvailability has answered from what parseMultiQuery returned.
BatchServed == IsBatch /\ "multiParsed" \in DOMAIN call

\* The urgency keywords the claims name.
UrgencyKeywords == {"urgent", "urgently", "asap", "rush", "quickly", "fast"}

\* The raw text of the request contains an urgency keyword, or the request
\* sets urgent.
BatchSignal ==
  \/ call.body.urgent
  \/ \E kw \in UrgencyKeywords :
       includes(toLowerCase(Chars(call.body.query)), Chars(kw))

\* The extractor marked element n of its array as urgent.
OwnSignal(n) ==
  /\ ~parseMultiQueryThrows(call.reply)
  /\ Field(call.reply.json.items[n], "urgent") = Some(TRUE)

\* C25: when the raw text contains an urgency keyword or the request sets
\* urgent, every result of checkMultiAvailability reports parsed.urgent true
\* and every recommendation of the batch has source 'local'; an item the
\* extractor did not mark as urgent is reported urgent exactly when one of
\* the two batch-level signals is set.
C25_BatchUrgency ==
  BatchServed =>
    \A n \in 1..Len(ret.data.results) :
      /\ BatchSignal =>
           /\ ret.data.results[n].parsed.urgent
           /\ \A k \in 1..Len(ret.data.results[n].availability.matchingProducts) :
                ret.data.results[n].availability.matchingProducts[k]
                  .recommendation.source = "local"
      /\ ~OwnSignal(n) => (ret.data.results[n].parsed.urgent <=> BatchSignal)

\* A volume order of 1000 card holders that the extractor did not mark as
\* urgent, in a request that sets urgent without a keyword in its text: the
\* Card Holder, which would come from China, is recommended from the local
\* supplier.
C25_Witness ==
  /\ BatchServed
  /\ call.body.query = "card holder"
  /\ call.body.urgent
  /\ Len(ret.data.results) = 2
  /\ ~OwnSignal(1)
  /\ ret.data.results[1].parsed.quantity = Some(1000)
  /\ ret.data.results[1].parsed.urgent
  /\ Len(ret.data.results[1].availability.matchingProducts) >= 1
  /\ ret.data.results[1].availability.matchingProducts[1].recommendation.source
       = "local"
  /\ recommendSourcing(ret.data.results[1].availability.matchingProducts[1].product,
                       Some(1000), FALSE).source = "china"

\* Neither batch-level signal is set: the volume order is not urgent and is
\* recommended from China, and the item the extractor marked is urgent.
C25_CalmWitness ==
  /\ BatchServed
  /\ ~BatchSignal
  /\ Len(ret.data.results) = 2
  /\ ~ret.data.results[1].parsed.urgent
  /\ ret.data.results[1].availability.matchingProducts[1].recommendation.source
       = "china"
  /\ OwnSignal(2)
  /\ ret.data.results[2].parsed.urgent

\* The keyword of the text alone makes the batch urgent.
C25_KeywordWitness ==
  /\ BatchServed
  /\ ~call.body.urgent
  /\ call.body.query = "Need 200 pcs of card holders urgently"
  /\ ~OwnSignal(1)
  /\ ret.data.results[1].parsed.urgent

\* --------------------------- specification: requests during a refresh

\* The availability requests served while the cache is refreshed.
SnapshotBodies ==
  { [query |-> query, quantity |-> Null, urgent |-> FALSE] :
      query \in {"badge case", "card holder"} }

\* What the external call settles with while the cache is refreshed.
SnapshotReplies ==
  {Rejected, Text(JsonObject(Some("card holder"), Null, Null, Null))}

\* The state once main has awaited initialize: the first refresh has loaded
\* the two sheets and the server listens.
InitSnapshot ==
  /\ products = <<LanyardRow, CardHolder("")>>
  /\ synonyms = ScenarioSynonyms
  /\ lastRefresh = Some(0)
  /\ isInitialized = TRUE
  /\ refreshes = << [ caller |-> "initialize",
                      startTime |-> 0,
                      getProducts |-> Fetched(<<LanyardRow, CardHolder("")>>),
                      getSynonyms |-> Fetched(ScenarioSynonyms),
                      state |-> "resolved",
                      response |-> Null ] >>
  /\ log = <<>>
  /\ clock = 1
  /\ call = NoCall
  /\ ret = Null

NextSnapshot ==
  \/ TimerFires
  \/ RefreshCache
  \/ \E r \in 1..MaxRefreshes,
        outcome \in {Failed} \cup {Fetched(rows) : rows \in FetchedProducts} :
       GetProductsSettles(r, outcome)
  \/ \E r \in 1..MaxRefreshes,
        outcome \in {Failed} \cup {Fetched(rows) : rows \in FetchedSynonyms} :
       GetSynonymsSettles(r, outcome)
  \/ \E body \in SnapshotBodies : CheckAvailability(body)
  \/ \E reply \in SnapshotReplies : ParseQueryReturns(reply)

SpecSnapshot == InitSnapshot /\ [][NextSnapshot]_vars

\* C26: when checkAvailability resumes from its await of the extractor and
\* resolves the extractor's productType and matches the products, the cache
\* it reads is the one it resolved the raw query on: the resolution it made
\* before the await is the resolution of the raw query on the synonyms it
\* reads now, also when a refresh has completed in between.
C26_OneSnapshotPerRequest ==
  [][ ( /\ Awaiting
        /\ call.op = "checkAvailability"
        /\ call'.pc = "responded" )
      => call.started.synonymFromQuery = resolveSynonym(call.body.query) ]_vars

\* ------------------------------------------ claims on overlapping refreshes

\* The refreshes that have resolved, and the one of them that started last.
ResolvedRefreshes == {r \in 1..Len(refreshes) : Resolved(r)}

LastStarted == CHOOSE r \in ResolvedRefreshes : \A q \in ResolvedRefreshes : q <= r

\* C27: once every refresh that was started has completed, the cache holds
\* the products and synonyms fetched by the successful refresh that started
\* last, also when a refresh that started earlier finished after it.
C27_NoStaleOverwrite ==
  ( /\ ResolvedRefreshes # {}
    /\ \A r \in 1..Len(refreshes) : refreshes[r].state # "fetching" )
  => /\ products = refreshes[LastStarted].getProducts.rows
     /\ synonyms = refreshes[LastStarted].getSynonyms.rows

\* ------------------------------------- claims on the reported color flag

\* C28: whenever no color is requested and at least one product matches, the
\* colorAvailable flag is true, in the response of checkAvailability and in
\* each result of checkMultiAvailability, also when no matched product
\* offers the overseas tier.
C28_UnconstrainedIsSatisfiable ==
  /\ ( /\ AvailabilityServed
       /\ ret.data.parsed.color = Null
       /\ ret.data.availability.found )
     => ret.data.availability.colorAvailable
  /\ BatchServed =>
       \A n \in 1..Len(ret.data.results) :
         ( /\ ret.data.results[n].parsed.color = Null
           /\ ret.data.results[n].availability.found )
         => ret.data.results[n].availability.colorAvailable

\* ------------------------------------- claims on the products matched

\* The effective search term of the response: the reported synonymResolved
\* when there is one (neither null nor empty, C22), else the extractor's
\* productType.
EffectiveSearchTerm ==
  FirstNonEmpty(ret.data.synonymResolved, Some(call.parsed.productType))[1]

\* The catalog positions of the products of the response, in order.
MatchedPositions ==
  [k \in 1..Len(ret.data.availability.matchingProducts) |->
     ret.data.availability.matchingProducts[k].position]

\* C29: the products matched by checkAvailability are exactly
\* findProducts(effective search term): the canonical name obtained from the
\* synonym lookup is not resolved through the synonym table a second time,
\* so that checkAvailability matches what search matches for that term.
C29_ResolvedOnce ==
  AvailabilityServed => MatchedPositions = findProducts(EffectiveSearchTerm)

\* ------------------------------------- claims on the success summary

\* Some colorMatch flag of the top-ranked match is true.
FirstMatchOffers(availability) ==
  \/ availability.matchingProducts[1].colorMatch.onWebsite
  \/ availability.matchingProducts[1].colorMatch.fromLocal
  \/ availability.matchingProducts[1].colorMatch.fromChina

\* The summary rendered is the one of the top-ranked match, and it names the
\* requested color.
NamesColor(parsed, availability) ==
  /\ availability.found
  /\ Truthy(parsed.color)
  /\ availability.colorAvailable

\* C30: whenever checkAvailability, or checkMultiAvailability for an item,
\* renders the success summary naming the requested color together with the
\* top-ranked product, some colorMatch flag of that first match is true: the
\* color is obtainable for that product, not only for a lower-ranked match.
C30_SummaryTruthfulAboutColor ==
  /\ ( /\ AvailabilityServed
       /\ NamesColor(ret.data.parsed, ret.data.availability) )
     => FirstMatchOffers(ret.data.availability)
  /\ BatchServed =>
       \A n \in 1..Len(ret.data.results) :
         NamesColor(ret.data.results[n].parsed, ret.data.results[n].availability)
           => FirstMatchOffers(ret.data.results[n].availability)

====
